---- MODULE Spec2Model ----
(***************************************************************************)
(* A model of the hardware simulation core of vscode-tinygo: the pin/wire  *)
(* connectivity graph (Pin, Wire), the schematic (Play), and the devices   *)
(* (LED, WS2812, ST7789).                                                   *)
(*                                                                         *)
(* JavaScript Sets and arrays are modelled as sequences without            *)
(* duplicates, in insertion order, because the code iterates them in that  *)
(* order.  Every event handler is one action; a handler that throws keeps  *)
(* the assignments it made before the throw and records the exception in   *)
(* err.  The imperative code is written as operators that take and return  *)
(* the "world" record W of all mutable fields.                              *)
(***************************************************************************)
EXTENDS Integers, Sequences, FiniteSets, TLC

\* ------------------------------------------------------------------ bounds
\* Wire objects alive at the same time in one schematic.
MaxWires == 2
\* Cap of the global connectivity version counter.
MaxVersion == 4
\* Bytes the running program writes to the WS2812 chain.
MaxWsBytes == 7
\* Bytes sent over the SPI bus: for the window commands, for memory writes.
MaxSpiBytes == 6
MaxPixelBytes == 8
\* Calls of Microcontroller.runBinary.
MaxBusBytes == 5
MaxAnyBytes == 6
MaxRuns == 2
\* Calls of runCompiler of one preview panel, and 'notifyUpdate' messages
\* between two animation frames.
MaxCompiles == 3
MaxSignals == 3
\* Calls of Compiler.compile of one preview panel of extension.ts.
MaxBuilds == 3

\* ------------------------------------------------------- JavaScript values
Undefined == "undefined"
Null == "null"

\* Set.prototype.has on a sequence-modelled Set.
Has(q, x) == \E i \in 1..Len(q) : q[i] = x

\* Set.prototype.add: appends unless present (insertion order is kept).
SetAdd(q, x) == IF Has(q, x) THEN q ELSE Append(q, x)

RECURSIVE SetAddAll(_, _)
SetAddAll(q, xs) ==
    IF xs = <<>> THEN q ELSE SetAddAll(SetAdd(q, Head(xs)), Tail(xs))

\* Set.prototype.delete / Array.prototype.filter(y => y !== x).
SetDelete(q, x) == SelectSeq(q, LAMBDA y : y # x)

Range(q) == {q[i] : i \in 1..Len(q)}

\* Array.prototype.indexOf, 1-based; 0 when absent (JavaScript's -1).
IndexOf(q, x) ==
    IF Has(q, x) THEN CHOOSE i \in 1..Len(q) : q[i] = x /\ \A j \in 1..(i-1) : q[j] # x
    ELSE 0

\* Array.prototype.splice(i, 1), 1-based.
Splice(q, i) == [j \in 1..(Len(q) - 1) |-> IF j < i THEN q[j] ELSE q[j + 1]]

\* ------------------------------------------------ the devices of the model
\* The devices: the root object "board" (a Composite) and its children (a
\* Microcontroller "mcu" or "soc", an on-board LED "bled", a display
\* "st7789"), a free-standing LED "led1" and two WS2812 "ws1" and "ws2".
\* A pin is named by its name; the names are unique across the devices.
BoardId == "board"
LedIds == {"led1"}
WsIds == {"ws1", "ws2"}

\* The pins of the three schematics that are explored.
SchematicPins == {"B1", "B2", "M1", "M2", "Ba", "Bc", "La", "Lc"}
ChainPins == {"B1", "B2", "M1", "M2", "Ba", "Bc", "din1", "dout1", "din2", "dout2"}
TftPins == {"T0", "T1", "T2", "T3", "P0", "P1", "P2", "P3", "SCK", "SDI", "DC", "CS"}

\* Pin.device
DeviceOf(p) ==
    CASE p \in {"B1", "B2", "T0", "T1", "T2", "T3"} -> "board"
      [] p \in {"M1", "M2"} -> "mcu"
      [] p \in {"P0", "P1", "P2", "P3"} -> "soc"
      [] p \in {"Ba", "Bc"} -> "bled"
      [] p \in {"La", "Lc"} -> "led1"
      [] p \in {"din1", "dout1"} -> "ws1"
      [] p \in {"din2", "dout2"} -> "ws2"
      [] p \in {"SCK", "SDI", "DC", "CS"} -> "st7789"
      [] OTHER -> Undefined

\* Device.pins, in order (for a board: the pins of its descriptor, DescPins).
PinsOf(d) ==
    CASE d = "mcu" -> <<"M1", "M2">>
      [] d = "soc" -> <<"P0", "P1", "P2", "P3">>
      [] d = "bled" -> <<"Ba", "Bc">>
      [] d = "led1" -> <<"La", "Lc">>
      [] d = "ws1" -> <<"din1", "dout1">>
      [] d = "ws2" -> <<"din2", "dout2">>
      [] d = "st7789" -> <<"SCK", "SDI", "DC", "CS">>
      [] OTHER -> <<>>

\* The entry of the `devices` table a device was created from.
TypeOf(d) ==
    CASE d \in {"mcu", "soc"} -> "mcu"
      [] d \in {"bled", "led1"} -> "led"
      [] d \in WsIds -> "ws2812"
      [] d = "st7789" -> "st7789"
      [] OTHER -> "composite"

\* Pin constructor: data.mode || 'input'.  The WS2812 declares dout an
\* output; the "tft" descriptor declares the data/command and chip-select
\* lines P2 and P3 of its microcontroller outputs.
DefaultMode(p) == IF p \in {"dout1", "dout2", "P2", "P3"} THEN "output" ELSE "input"

\* Board descriptors (devices/<name>.json): the board's pins, its child
\* objects, and per board pin the child pins of data.connected, in order.
\* "shared" names child pin M1 in the connection map of both board pins;
\* "tft" is a board with a display on the SPI bus of its microcontroller.
Descriptors == {"good", "shared"}
DescPins(dn) == IF dn = "tft" THEN <<"T0", "T1", "T2", "T3">> ELSE <<"B1", "B2">>
DescChildren(dn) ==
    CASE dn = "good" -> <<"mcu", "bled">>
      [] dn = "tft" -> <<"soc", "st7789">>
      [] OTHER -> <<"mcu">>
DescConnected(dn, p) ==
    CASE dn = "good" /\ p = "B1" -> <<"M1", "Ba">>
      [] dn = "good" /\ p = "B2" -> <<"M2">>
      [] dn = "shared" /\ p = "B1" -> <<"M1">>
      [] dn = "shared" /\ p = "B2" -> <<"M1">>
      [] dn = "tft" /\ p = "T0" -> <<"P0", "SCK">>
      [] dn = "tft" /\ p = "T1" -> <<"P1", "SDI">>
      [] dn = "tft" /\ p = "T2" -> <<"P2", "DC">>
      [] dn = "tft" /\ p = "T3" -> <<"P3", "CS">>
      [] OTHER -> <<>>

\* Saved documents (message.data.state).  A wire is {from, to}, each an
\* {id, pin} pair; the pin name stands for both.  "B3" is a pin of the board
\* the document was saved with that the current board does not have.
Documents == {"empty", "wired"}
DocObjects(doc) ==
    CASE doc \in {"wired", "knot", "twin"} -> <<"board", "led1">>
      [] doc = "chain" -> <<"board", "ws1", "ws2">>
      [] OTHER -> <<"board">>
DocWires(doc) ==
    CASE doc = "wired" -> << [from |-> "La", to |-> "B1"], [from |-> "B3", to |-> "La"] >>
      [] doc = "chain" -> << [from |-> "B1", to |-> "din1"], [from |-> "dout1", to |-> "din2"] >>
      [] doc = "knot" -> << [from |-> "La", to |-> "La"] >>
      [] doc = "twin" -> << [from |-> "La", to |-> "B1"], [from |-> "B1", to |-> "La"] >>
      [] OTHER -> <<>>

NoWire == [from |-> Undefined, to |-> Undefined, dfrom |-> Undefined, dto |-> Undefined, hidden |-> FALSE]
NoSelection == [kind |-> "none", dev |-> "", wire |-> 0]
SelDevice(d) == [kind |-> "device", dev |-> d, wire |-> 0]
SelWire(w) == [kind |-> "wire", dev |-> "", wire |-> w]

\* A call of Compiler.compile that was not made.
NoBuild == [obj |-> 0, at |-> "none", awaited |-> FALSE]

VARIABLES
    loaded,                   \* a Play exists (the 'start' message was handled)
    desc,                     \* the descriptor the board was created from
    objects,                  \* Play.objects: ids of the placed top-level devices
    dataObjects,              \* Play.data.objects
    wires,                    \* Play.wires: wire ids, in array order
    dataWires,                \* Play.data.wires: the data objects, by their wire's id
    wobj,                     \* the Wire objects: from, to, data.from, data.to, hidden
    wireConfigurationVersion, \* the global version counter
    mode, high,               \* Pin.mode, Pin.high
    connectedOnBoard,         \* Pin.connectedOnBoard: which Set object the pin references
    groups,                   \* the contents of those Set objects
    pinWires,                 \* Pin.wires
    connectionCache,          \* Pin.connectionCache (<<>> is null)
    connectionCacheVersion,   \* Pin.connectionCacheVersion
    selected, moveMode,       \* Play.selected, Play.moveMode
    ledOn,                    \* LED.infoDiv.textContent == 'on'
    err,                      \* the exception the last handler ended with ("" if none)
    created,                  \* history: ids of the devices ever created
    notified,                 \* history: what each LED's last onPinChange in the last handler observed
    removed,                  \* history: the device the last handler passed to removeObject
    snap,                     \* history: the schematic before the tracked wire was created
    ws,                       \* the WS2812 objects: bytesInShiftRegister, color, latchTimeout, infoDiv
    got,                      \* history: per WS2812, the bytes received on din since its last latch
    wsLast,                   \* history: the last byte written from outside, and the calls it caused
    st,                       \* the ST7789 object
    spi,                      \* the SPIController of the microcontroller
    sent,                     \* history: the number of bytes the program wrote (WS2812 or SPI)
    params,                   \* history: the data bytes the display accepted since the last command
    atCommand,                \* history: the window registers after the last accepted command
    xfer,                     \* history: the last SPI transfer, the display before it, its fillRect calls
    upd,                      \* history: the Pin.update calls of the last handler, and what they notified
    runner,                   \* Microcontroller.runner: 0 (null) or the Runner it references
    runners,                  \* the Runner objects: "none" (not created), "starting", "running", "stopped"
    runs,                     \* history: the number of calls of Microcontroller.runBinary
    compiler,                 \* createPanel: `compiler`, 0 (undefined) or the call that created it
    worker,                   \* createPanel: `worker`, 0 (undefined) or the call that created it
    procs,                    \* per call of runCompiler: where its compiler.compile() is
    workers,                  \* per call of runCompiler: the Worker it created
    calls,                    \* history: the number of calls of runCompiler
    rafs,                     \* webview: the callbacks waiting for the next animation frame
    signals,                  \* history: 'notifyUpdate' messages since the last animation frame
    requests,                 \* history: what the last animation frame saw and sent
    panelDisposed,            \* createPanel: `panelDisposed`
    late,                     \* history: the messages posted to the webview after the dispose handler ran
    extCompiler,              \* extension.ts, 'ready' handler: `compiler`, 0 or the Compiler it references
    compiling,                \* extension.ts, 'ready' handler: `compiling`
    process,                  \* extension.ts, per Compiler object: `this.process`, 0 or the build it started
    builds,                   \* extension.ts, per call of Compiler.compile: its object, its position, its caller
    compiles,                 \* history: the number of calls of Compiler.compile
    ran,                      \* history: the builds that sent 'run'
    superseded                \* history: the builds that were in progress when a Go file changed

schematicVars ==
    << loaded, desc, objects, dataObjects, wires, dataWires, wobj,
       wireConfigurationVersion, mode, high, connectedOnBoard, groups, pinWires,
       connectionCache, connectionCacheVersion, selected, moveMode, ledOn, err,
       created, notified, removed, snap >>

deviceVars == << ws, got, wsLast, st, spi, sent, params, atCommand, xfer, upd, runner, runners, runs >>

panelVars ==
    << compiler, worker, procs, workers, calls, rafs, signals, requests, panelDisposed, late >>

extVars == << extCompiler, compiling, process, builds, compiles, ran, superseded >>

vars == << schematicVars, deviceVars, panelVars, extVars >>

\* The world record: every mutable field of the schematic.
W ==
    [ loaded |-> loaded, desc |-> desc, objects |-> objects,
      dataObjects |-> dataObjects, wires |-> wires, dataWires |-> dataWires,
      wobj |-> wobj, version |-> wireConfigurationVersion, mode |-> mode,
      high |-> high, cob |-> connectedOnBoard, groups |-> groups,
      pinWires |-> pinWires, cache |-> connectionCache,
      cver |-> connectionCacheVersion, selected |-> selected,
      moveMode |-> moveMode, ledOn |-> ledOn, err |-> err, created |-> created,
      notified |-> notified, removed |-> removed, snap |-> snap,
      ws |-> ws, got |-> got, wsLast |-> wsLast, st |-> st, spi |-> spi,
      sent |-> sent, params |-> params, atCommand |-> atCommand, xfer |-> xfer,
      upd |-> upd, runner |-> runner, runners |-> runners, runs |-> runs ]

\* The next state is the world record s.  A Wire object that left Play.wires
\* is referenced by nothing and is garbage.  The version counter never
\* decreases, so a cache whose version is not the current one is never
\* returned again: it is stored as null, which the getter treats the same.
Commit(s) ==
    /\ loaded' = s.loaded
    /\ desc' = s.desc
    /\ objects' = s.objects
    /\ dataObjects' = s.dataObjects
    /\ wires' = s.wires
    /\ dataWires' = s.dataWires
    /\ wobj' = [w \in DOMAIN s.wobj |-> IF Has(s.wires, w) THEN s.wobj[w] ELSE NoWire]
    /\ wireConfigurationVersion' = s.version
    /\ mode' = s.mode
    /\ high' = s.high
    /\ connectedOnBoard' = s.cob
    /\ groups' = s.groups
    /\ pinWires' = s.pinWires
    /\ connectionCache' =
           [p \in DOMAIN s.cache |-> IF s.cver[p] = s.version THEN s.cache[p] ELSE <<>>]
    /\ connectionCacheVersion' =
           [p \in DOMAIN s.cver |-> IF s.cver[p] = s.version THEN s.cver[p] ELSE 0]
    /\ selected' = s.selected
    /\ moveMode' = s.moveMode
    /\ ledOn' = s.ledOn
    /\ err' = s.err
    /\ created' = s.created
    /\ notified' = s.notified
    /\ removed' = s.removed
    /\ snap' = s.snap
    /\ ws' = s.ws
    /\ got' = s.got
    /\ wsLast' = s.wsLast
    /\ st' = s.st
    /\ spi' = s.spi
    /\ sent' = s.sent
    /\ params' = s.params
    /\ atCommand' = s.atCommand
    /\ xfer' = s.xfer
    /\ upd' = s.upd
    /\ runner' = s.runner
    /\ runners' = s.runners
    /\ runs' = s.runs
    /\ UNCHANGED << panelVars, extVars >>

\* No animation frame ran since the last 'notifyUpdate'.
NoFrame == [signals |-> 0, getUpdate |-> 0]

\* No wire is tracked.
NoSnap == [status |-> "none", wire |-> 0, from |-> "", to |-> "",
           conn |-> [q \in {} |-> {}], pw |-> [q \in {} |-> {}]]

\* No byte was written to a WS2812, no byte was transferred.
NoWrite == [pin |-> "", c |-> 0, ws |-> <<>>, got |-> <<>>, calls |-> <<>>]
NoXfer == [b |-> 0, kind |-> "none", before |-> <<>>, fills |-> <<>>]

\* No pin was written, Pin.update was not called.
NoUpd == [op |-> "none", pin |-> "", log |-> <<>>, pw |-> <<>>, version |-> 0]

\* A handler starts: no exception yet, the per-handler histories are empty.
Begin(s) ==
    [s EXCEPT !.err = "", !.notified = {}, !.removed = "", !.snap = NoSnap,
              !.wsLast = NoWrite, !.xfer = NoXfer, !.upd = NoUpd]

\* ------------------------------------------------------------ Pin (wiring)
\* pin.connectedOnBoard as a value.
Cob(s, p) == s.groups[s.cob[p]]

\* The first loop of Pin.connected: the pins of this pin's on-board group and
\* their wires.
RECURSIVE ScanBoard(_, _, _)
ScanBoard(s, pins, acc) ==
    IF pins = <<>> THEN acc
    ELSE ScanBoard(s, Tail(pins),
                   [connected |-> SetAdd(acc.connected, Head(pins)),
                    unchecked |-> SetAddAll(acc.unchecked, s.pinWires[Head(pins)])])

\* The iterations of the while loop of Pin.connected that the model follows
\* in one computation: one more than there can be wires.
MaxExpansions == MaxWires + 1

\* A faulty expansion that does not look at checkedWires.
ExpandEndNoGuard(s, pin, acc) ==
    [acc EXCEPT !.connected = SetAddAll(@, Cob(s, pin)),
                !.unchecked = SetAddAll(@, s.pinWires[pin])]

\* One end of a wire in the while loop of Pin.connected: the end's on-board
\* group joins `connected`, the end's unchecked wires join `unchecked`.
ExpandEnd(s, pin, acc) ==
    [acc EXCEPT !.connected = SetAddAll(@, Cob(s, pin)),
                !.unchecked = SetAddAll(@, SelectSeq(s.pinWires[pin],
                                                     LAMBDA w : ~Has(acc.checked, w)))]

\* The while loop of Pin.connected.  The for-of loop that "picks one of the
\* wires" leaves the last one.  An end that is null (a wire still being
\* created) makes pin.connectedOnBoard throw a TypeError.  `expanded` lists
\* the wire of every iteration; `cut` tells that the loop was still running
\* after MaxExpansions iterations, where the model leaves it.
RECURSIVE ExpandWires(_, _)
ExpandWires(s, acc) ==
    IF acc.unchecked = <<>>
    THEN [ok |-> TRUE, set |-> acc.connected, expanded |-> acc.expanded, cut |-> FALSE]
    ELSE IF Len(acc.expanded) >= MaxExpansions
    THEN [ok |-> TRUE, set |-> acc.connected, expanded |-> acc.expanded, cut |-> TRUE]
    ELSE LET wire == acc.unchecked[Len(acc.unchecked)]
             a1 == [acc EXCEPT !.unchecked = SetDelete(@, wire),
                               !.checked = SetAdd(@, wire),
                               !.expanded = Append(@, wire)]
             from == s.wobj[wire].from
             to == s.wobj[wire].to
         IN IF from \in {Null, Undefined} \/ to \in {Null, Undefined}
            THEN [ok |-> FALSE, set |-> <<>>, expanded |-> a1.expanded, cut |-> FALSE]
            ELSE ExpandWires(s, ExpandEnd(s, to, ExpandEnd(s, from, a1)))

\* The recomputation in Pin.connected (after the cache check).
ComputeConnected(s, p) ==
    LET a0 == ScanBoard(s, Cob(s, p), [connected |-> <<>>, unchecked |-> <<>>])
    IN ExpandWires(s, [connected |-> a0.connected, unchecked |-> a0.unchecked,
                       checked |-> <<>>, expanded |-> <<>>])

\* The cache check of Pin.connected.
CacheValid(s, p) == s.cache[p] # <<>> /\ s.cver[p] = s.version

\* What the getter Pin.connected returns: [ok, set]; ok = FALSE when it throws.
connectedValue(s, p) ==
    IF CacheValid(s, p) THEN [ok |-> TRUE, set |-> s.cache[p]]
    ELSE ComputeConnected(s, p)

\* The getter Pin.connected as a step: it stores what it computed.
connected(s, p) ==
    LET r == connectedValue(s, p)
    IN IF ~r.ok THEN [s EXCEPT !.err = "TypeError"]
       ELSE [s EXCEPT !.cache[p] = r.set, !.cver[p] = s.version]

\* Pin.isHigh / Pin.isLow: the first output pin of the connected set decides.
Outputs(s, set) == SelectSeq(set, LAMBDA q : s.mode[q] = "output")

isHigh(s, p) ==
    LET out == Outputs(s, connectedValue(s, p).set)
    IN IF out = <<>> THEN FALSE ELSE s.high[Head(out)]

isLow(s, p) ==
    LET out == Outputs(s, connectedValue(s, p).set)
    IN IF out = <<>> THEN FALSE ELSE ~s.high[Head(out)]

\* -------------------------------------------------------------------- LED
\* A faulty turn-on rule that takes a wired pin without a driver as satisfied.
LedRuleTolerant(s, d) ==
    LET a == connectedValue(s, PinsOf(d)[1]).set
        c == connectedValue(s, PinsOf(d)[2]).set
    IN /\ (Len(a) > 1 \/ Len(c) > 1)
       /\ ~(Len(a) > 1 /\ Outputs(s, a) # <<>> /\ ~isHigh(s, PinsOf(d)[1]))
       /\ ~(Len(c) > 1 /\ Outputs(s, c) # <<>> /\ ~isLow(s, PinsOf(d)[2]))

\* A faulty turn-on rule that looks at the wiring only, not at the levels.
LedRuleWiredOnly(s, d) ==
    \/ Len(connectedValue(s, PinsOf(d)[1]).set) > 1
    \/ Len(connectedValue(s, PinsOf(d)[2]).set) > 1

\* The value LED.onPinChange hands to LED.set.
LedRule(s, d) ==
    LET anodeConnected == Len(connectedValue(s, PinsOf(d)[1]).set) > 1
        cathodeConnected == Len(connectedValue(s, PinsOf(d)[2]).set) > 1
    IN /\ (anodeConnected \/ cathodeConnected)
       /\ ~(anodeConnected /\ ~isHigh(s, PinsOf(d)[1]))
       /\ ~(cathodeConnected /\ ~isLow(s, PinsOf(d)[2]))

\* What an LED's onPinChange observes: whether each pin is wired, and the
\* level of the anode's net.
Observed(s, d) ==
    [led |-> d,
     anodeConnected |-> Len(connectedValue(s, PinsOf(d)[1]).set) > 1,
     cathodeConnected |-> Len(connectedValue(s, PinsOf(d)[2]).set) > 1,
     high |-> isHigh(s, PinsOf(d)[1]),
     low |-> isLow(s, PinsOf(d)[1])]

\* LED.onPinChange: reads both pins' connected sets, then sets the LED.
LedOnPinChange(s, d) ==
    LET s1 == connected(s, PinsOf(d)[1])
        s2 == connected(s1, PinsOf(d)[2])
    IN IF s1.err # "" THEN s1
       ELSE IF s2.err # "" THEN s2
       ELSE [s2 EXCEPT !.ledOn[d] = LedRule(s2, d),
                       !.notified = {n \in @ : n.led # d} \cup {Observed(s2, d)}]

\* Device.onPinChange, dispatched on the device's class: only LED overrides it.
onPinChange(s, p) ==
    IF TypeOf(DeviceOf(p)) = "led" THEN LedOnPinChange(s, DeviceOf(p)) ELSE s

\* The second loop of Pin.update: onPinChange on the device of every
\* connected pin; an exception ends the loop.
\* The call is recorded in the entry of the running update.
RECURSIVE NotifyAll(_, _)
NotifyAll(s, pins) ==
    IF pins = <<>> \/ s.err # "" THEN s
    ELSE LET s1 == [s EXCEPT !.upd.log[Len(s.upd.log)].told = Append(@, Head(pins))]
         IN NotifyAll(onPinChange(s1, Head(pins)), Tail(pins))

\* What is recorded of a call of Pin.update: the pin and its level and mode,
\* the version counter and Play.wires at the call, the pins whose device's
\* onPinChange it called.
UpdateEntry(s, p) ==
    [pin |-> p, level |-> s.high[p], mode |-> s.mode[p], version |-> s.version,
     wires |-> s.wires, told |-> <<>>]

\* Pin.update
update(s, p) ==
    LET s0 == [s EXCEPT !.upd.log = Append(@, UpdateEntry(s, p))]
        s1 == connected(s0, p)
    IN IF s1.err # "" THEN s1 ELSE NotifyAll(s1, s1.cache[p])

\* Pin.set
set(s, p, level) == update([s EXCEPT !.high[p] = level], p)

\* Pin.setMode
setMode(s, p, m) == update([s EXCEPT !.mode[p] = m], p)

\* Pin.reset: the power-on state, data.mode || 'input' and low.
resetPin(s, p) == update([s EXCEPT !.mode[p] = DefaultMode(p), !.high[p] = FALSE], p)

\* ----------------------------------------------------------------- WS2812
\* WS2812 constructor: an empty shift register, color [0, 0, 0], no latch
\* scheduled, 'rgb(0, 0, 0)' in the info div.
WsNew ==
    [bytesInShiftRegister |-> 0, color |-> <<0, 0, 0>>, latchTimeout |-> FALSE,
     shown |-> <<0, 0, 0>>]

\* A faulty count that is not capped.
ShiftCountUncapped(n) == n + 1

\* Math.min(3, this.bytesInShiftRegister + 1)
ShiftCount(n) == IF n + 1 < 3 THEN n + 1 ELSE 3

\* A faulty choice of the byte handed on: the newest instead of the oldest.
ForwardNewest(color) == color[1]

\* The byte a WS2812 hands on: this.color[2] (color[3] here, sequences are 1-based).
ForwardByte(color) == color[3]

\* WS2812.writeWS2812Byte and, for the other devices, Device.writeWS2812Byte
\* (which does nothing).  ForwardAll is the loop over this.pins[1].connected.
RECURSIVE writeWS2812Byte(_, _, _)
RECURSIVE ForwardAll(_, _, _)
ForwardAll(s, d, pins) ==
    IF pins = <<>> \/ s.err # "" THEN s
    ELSE LET c == ForwardByte(s.ws[d].color)
             s1 == [s EXCEPT !.wsLast.calls =
                                 Append(@, [by |-> d, pin |-> Head(pins), c |-> c])]
         IN ForwardAll(writeWS2812Byte(s1, Head(pins), c), d, Tail(pins))

writeWS2812Byte(s, pin, c) ==
    LET d == DeviceOf(pin)
    IN IF TypeOf(d) # "ws2812" \/ pin # PinsOf(d)[1] THEN s
       ELSE LET s1 == IF s.ws[d].bytesInShiftRegister = 3
                      THEN LET s0 == connected(s, PinsOf(d)[2])
                           IN IF s0.err # "" THEN s0
                              ELSE ForwardAll(s0, d, s0.cache[PinsOf(d)[2]])
                      ELSE s
            IN IF s1.err # "" THEN s1
               ELSE [s1 EXCEPT
                        !.ws[d].color = <<c, @[1], @[2]>>,
                        !.ws[d].bytesInShiftRegister = ShiftCount(@),
                        !.ws[d].latchTimeout = TRUE,
                        !.got[d] = Append(@, c)]

\* WS2812.latch: g = color[2], r = color[1], b = color[0].
latch(s, d) ==
    [s EXCEPT !.ws[d].latchTimeout = FALSE,
              !.ws[d].bytesInShiftRegister = 0,
              !.ws[d].shown = <<s.ws[d].color[2], s.ws[d].color[3], s.ws[d].color[1]>>,
              !.got[d] = <<>>]

\* ----------------------------------------------------------------- ST7789
\* The display's data: 240 x 240 pixels, shown from row 80 of the frame memory.
pixelWidth == 240
pixelHeight == 240
columnOffset == 0
rowOffset == 80

\* The commands transferSPI knows (0x01, 0x20, 0x21, 0x2a, 0x2b, 0x2c, 0x36, 0x3a).
SWRESET == 1
INVOFF == 32
INVON == 33
CASET == 42
RASET == 43
RAMWR == 44
MADCTL == 54
COLMOD == 58

\* this.dataBuf: null, or an array of bytes.
NullBuf == [null |-> TRUE, bytes |-> <<>>]
EmptyBuf == [null |-> FALSE, bytes |-> <<>>]

\* A faulty reset that leaves the window and the inversion flag alone.
resetCursorOnly(d) ==
    [d EXCEPT !.x = 0, !.y = 0, !.dataByte = <<>>, !.currentColor = -1]

\* ST7789.reset: xe = 0xef, ye = 0x13f.  dataByte is <<>> for null.
reset(d) ==
    [d EXCEPT !.xs = 0, !.xe = 239, !.ys = 0, !.ye = 319, !.inverse = FALSE,
              !.x = 0, !.y = 0, !.dataByte = <<>>, !.currentColor = -1]

\* ST7789 constructor: fillStyle 'black', command 0x00, dataBuf null, reset().
StNew ==
    reset([command |-> 0, dataBuf |-> NullBuf, xs |-> 0, xe |-> 0, ys |-> 0, ye |-> 0,
           inverse |-> FALSE, x |-> 0, y |-> 0, dataByte |-> <<>>, currentColor |-> -1,
           fillStyle |-> <<0, 0, 0>>])

\* Math.round(n * 255 / d) for the channel maxima d = 31 and d = 63 (n * 255 / d
\* is never halfway between two integers).
Round255(n, d) == (2 * n * 255 + d) \div (2 * d)

\* A faulty decoding that takes the word as BGR565.
RgbAsBgr(word) ==
    << Round255(word % 32, 31),
       Round255((word \div 32) % 64, 63),
       Round255(word \div 2048, 31) >>

\* The fillStyle 'rgb(red,green,blue)' of an RGB565 word.
Rgb(word) ==
    << Round255(word \div 2048, 31),
       Round255((word \div 32) % 64, 63),
       Round255(word % 32, 31) >>

\* A faulty, little-endian reading of two bytes.
WordLittleEndian(hi, lo) == lo * 256 + hi

\* (this.dataBuf[i] << 8) + this.dataBuf[i + 1]
Word(hi, lo) == hi * 256 + lo

\* The "increment row/column address" part of a memory write.
Advance(d) ==
    LET x1 == d.x + 1
        x2 == IF x1 > d.xe THEN d.xs ELSE x1
        y1 == IF x1 > d.xe THEN d.y + 1 ELSE d.y
        y2 == IF y1 > d.ye THEN d.ys ELSE y1
    IN [d EXCEPT !.x = x2, !.y = y2]

\* The RAMWR branch of transferSPI: the first byte of a pair is kept, the
\* second one completes the pixel.
WritePixel(s, b) ==
    IF s.st.dataByte = <<>> THEN [s EXCEPT !.st.dataByte = <<b>>]
    ELSE LET word == Word(s.st.dataByte[1], b)
             d1 == IF s.st.currentColor # word
                   THEN [s.st EXCEPT !.dataByte = <<>>, !.currentColor = word,
                                     !.fillStyle = Rgb(word)]
                   ELSE [s.st EXCEPT !.dataByte = <<>>]
             x == d1.x - columnOffset
             y == d1.y - rowOffset
             inside == x >= 0 /\ y >= 0 /\ x < pixelWidth /\ y < pixelHeight
         IN [s EXCEPT !.st = Advance(d1),
                      !.xfer.fills = IF inside
                                     THEN Append(@, [x |-> x, y |-> y, style |-> d1.fillStyle])
                                     ELSE @]

\* The data branch of transferSPI (this.dc.isHigh()).  Reading .length of a
\* null dataBuf throws a TypeError.
ReceiveData(s, b) ==
    LET buf == IF s.st.dataBuf.null THEN s.st.dataBuf
               ELSE [s.st.dataBuf EXCEPT !.bytes = Append(@, b)]
        s1 == [s EXCEPT !.st.dataBuf = buf]
        cmd == s.st.command
    IN IF cmd \in {CASET, RASET, MADCTL, COLMOD} /\ buf.null
       THEN [s1 EXCEPT !.err = "TypeError"]
       ELSE IF cmd = CASET /\ Len(buf.bytes) = 4
       THEN [s1 EXCEPT !.st.xs = Word(buf.bytes[1], buf.bytes[2]),
                       !.st.xe = Word(buf.bytes[3], buf.bytes[4])]
       ELSE IF cmd = RASET /\ Len(buf.bytes) = 4
       THEN [s1 EXCEPT !.st.ys = Word(buf.bytes[1], buf.bytes[2]),
                       !.st.ye = Word(buf.bytes[3], buf.bytes[4])]
       ELSE IF cmd = RAMWR THEN WritePixel(s1, b)
       ELSE s1

\* A faulty command branch that keeps the pending data: the parameter buffer
\* of an address command and the kept half of a pixel.
ReceiveCommandKeepData(s, b) ==
    LET d == [s.st EXCEPT !.command = b]
    IN [s EXCEPT !.st =
          CASE b = SWRESET -> reset(d)
            [] b = INVOFF -> [d EXCEPT !.inverse = FALSE]
            [] b = INVON -> [d EXCEPT !.inverse = TRUE]
            [] b \in {CASET, RASET, COLMOD, MADCTL} ->
                   [d EXCEPT !.dataBuf = IF @.null THEN EmptyBuf ELSE @]
            [] b = RAMWR -> [d EXCEPT !.x = d.xs, !.y = d.ys]
            [] OTHER -> d]

\* A faulty command branch that allocates no buffer for the parameters of
\* the address commands.
ReceiveCommandNoBuf(s, b) ==
    LET d == [s.st EXCEPT !.command = b, !.dataBuf = NullBuf]
    IN [s EXCEPT !.st =
          CASE b = SWRESET -> reset(d)
            [] b = INVOFF -> [d EXCEPT !.inverse = FALSE]
            [] b = INVON -> [d EXCEPT !.inverse = TRUE]
            [] b \in {COLMOD, MADCTL} -> [d EXCEPT !.dataBuf = EmptyBuf]
            [] b = RAMWR -> [d EXCEPT !.x = d.xs, !.y = d.ys, !.dataByte = <<>>]
            [] OTHER -> d]

\* The command branch of transferSPI.
ReceiveCommand(s, b) ==
    LET d == [s.st EXCEPT !.command = b, !.dataBuf = NullBuf]
    IN [s EXCEPT !.st =
          CASE b = SWRESET -> reset(d)
            [] b = INVOFF -> [d EXCEPT !.inverse = FALSE]
            [] b = INVON -> [d EXCEPT !.inverse = TRUE]
            [] b \in {CASET, RASET, COLMOD, MADCTL} -> [d EXCEPT !.dataBuf = EmptyBuf]
            [] b = RAMWR -> [d EXCEPT !.x = d.xs, !.y = d.ys, !.dataByte = <<>>]
            [] OTHER -> d]

\* A faulty transferSPI that does not look at chip select.
transferSPIUnselected(s, b, sck, sdi) ==
    LET s1 == connected(s, sck)
        s2 == connected(s1, sdi)
        s4 == connected(s2, "DC")
    IN IF s1.err # "" THEN s1
       ELSE IF ~Has(s1.cache[sck], "SCK") THEN s1
       ELSE IF s2.err # "" THEN s2
       ELSE IF ~Has(s2.cache[sdi], "SDI") THEN s2
       ELSE IF s4.err # "" THEN s4
       ELSE IF isHigh(s4, "DC") THEN ReceiveData(s4, b)
       ELSE ReceiveCommand(s4, b)

\* ST7789.transferSPI(b, sck, sdi): the checks of the bus and of chip select,
\* then the data or the command branch.
transferSPI(s, b, sck, sdi) ==
    LET s1 == connected(s, sck)
        s2 == connected(s1, sdi)
        s3 == connected(s2, "CS")
        s4 == connected(s3, "DC")
    IN IF s1.err # "" THEN s1
       ELSE IF ~Has(s1.cache[sck], "SCK") THEN s1
       ELSE IF s2.err # "" THEN s2
       ELSE IF ~Has(s2.cache[sdi], "SDI") THEN s2
       ELSE IF s3.err # "" THEN s3
       ELSE IF isHigh(s3, "CS") THEN s3
       ELSE IF s4.err # "" THEN s4
       ELSE IF isHigh(s4, "DC") THEN ReceiveData(s4, b)
       ELSE ReceiveCommand(s4, b)

\* SPIController.transfer: every device with a pin on the clock net that has
\* a transferSPI method receives the byte.  The method takes (b, sck, sdi);
\* the controller passes (b, sck, sdo, sdi), so the display's sdi is the
\* controller's sdo.
RECURSIVE TransferAll(_, _, _)
TransferAll(s, b, pins) ==
    IF pins = <<>> \/ s.err # "" THEN s
    ELSE TransferAll(IF TypeOf(DeviceOf(Head(pins))) = "st7789"
                     THEN transferSPI(s, b, s.spi.sck, s.spi.sdo)
                     ELSE s,
                     b, Tail(pins))

transfer(s, b) ==
    IF s.spi.sck = Null THEN [s EXCEPT !.err = "TypeError"]
    ELSE LET s1 == connected(s, s.spi.sck)
         IN IF s1.err # "" THEN s1 ELSE TransferAll(s1, b, s1.cache[s.spi.sck])

\* Microcontroller.configureSPI, on a new SPIController (sck = sdo = sdi = null).
NoSpi == [sck |-> Null, sdo |-> Null, sdi |-> Null]
configureSPI(s, sck, sdo, sdi) == [s EXCEPT !.spi = [sck |-> sck, sdo |-> sdo, sdi |-> sdi]]

\* ------------------------------------------------------------- construction
\* Pin constructor.
NewPin(s, p) ==
    [s EXCEPT !.mode[p] = DefaultMode(p), !.high[p] = FALSE,
              !.cob[p] = <<"pin", p>>, !.groups[<<"pin", p>>] = <<p>>,
              !.pinWires[p] = <<>>, !.cache[p] = <<>>, !.cver[p] = 0]

RECURSIVE NewPins(_, _)
NewPins(s, pins) ==
    IF pins = <<>> THEN s ELSE NewPins(NewPin(s, Head(pins)), Tail(pins))

\* new devices[data.type](parent, properties, data) for the simple devices.
\* The LED constructor ends in updateShape, which calls onPinChange.
NewDevice(s, d) ==
    LET s1 == NewPins([s EXCEPT !.created = @ \cup {d}], PinsOf(d))
    IN CASE TypeOf(d) = "led" -> LedOnPinChange(s1, d)
         [] TypeOf(d) = "ws2812" -> [s1 EXCEPT !.ws[d] = WsNew, !.got[d] = <<>>]
         [] TypeOf(d) = "st7789" -> [s1 EXCEPT !.st = StNew]
         [] TypeOf(d) = "mcu" -> [s1 EXCEPT !.spi = NoSpi]
         [] OTHER -> s1

RECURSIVE NewDevices(_, _)
NewDevices(s, ds) ==
    IF ds = <<>> THEN s ELSE NewDevices(NewDevice(s, Head(ds)), Tail(ds))

\* The inner loop of Composite.loadChildren for one board pin: every child
\* pin of data.connected joins the board pin's Set and references it.
RECURSIVE ConnectChildren(_, _, _)
ConnectChildren(s, pin, children) ==
    IF children = <<>> THEN s
    ELSE ConnectChildren(
            [s EXCEPT !.groups[<<"board", pin>>] = SetAdd(@, Head(children)),
                      !.cob[Head(children)] = <<"board", pin>>],
            pin, Tail(children))

\* The second loop of Composite.loadChildren: a new Set per board pin.
RECURSIVE Regroup(_, _)
Regroup(s, pins) ==
    IF pins = <<>> THEN s
    ELSE LET pin == Head(pins)
             s1 == [s EXCEPT !.cob[pin] = <<"board", pin>>,
                             !.groups[<<"board", pin>>] = <<pin>>]
         IN Regroup(ConnectChildren(s1, pin, DescConnected(s.desc, pin)), Tail(pins))

\* Composite.loadChildren: create the children, then group the pins.
loadChildren(s) == Regroup(NewDevices(s, DescChildren(s.desc)), DescPins(s.desc))

\* createObject: a Composite (constructor, then loadChildren) for the board,
\* a simple device otherwise.
createObject(s, d) ==
    IF d = BoardId
    THEN loadChildren(NewPins([s EXCEPT !.created = @ \cup {d}], DescPins(s.desc)))
    ELSE NewDevice(s, d)

\* Play.addObject: the object joins Play.objects.
addObject(s, d) == [createObject(s, d) EXCEPT !.objects = @ \cup {d}]

RECURSIVE addObjects(_, _)
addObjects(s, ds) ==
    IF ds = <<>> THEN s ELSE addObjects(addObject(s, Head(ds)), Tail(ds))

\* play.objects[id].obj.getPinByName(name): the pin, or undefined when the
\* object has no pin of that name.
getPinByName(s, name) ==
    IF /\ name \in DOMAIN s.mode
       /\ DeviceOf(name) \in s.objects
    THEN name ELSE Undefined

\* The smallest wire id not in use.
FreeWires(s) == {w \in 1..MaxWires : ~Has(s.wires, w)}
FreshWire(s) == CHOOSE w \in FreeWires(s) : \A v \in FreeWires(s) : w <= v

\* A faulty constructor that attaches a wire to the end that exists when the
\* other end is missing.
NewWireOneEnd(s, w, dfrom, dto) ==
    LET from == getPinByName(s, dfrom)
        to == IF dto = Null THEN Null ELSE getPinByName(s, dto)
        obj == [from |-> from, to |-> to, dfrom |-> dfrom, dto |-> dto, hidden |-> FALSE]
        s1 == [s EXCEPT !.wobj[w] = obj]
    IN IF dto # Null /\ (from = Undefined \/ to = Undefined)
       THEN LET s2 == [s EXCEPT !.wobj[w] = [obj EXCEPT !.hidden = TRUE]]
                s3 == IF to # Undefined THEN [s2 EXCEPT !.pinWires[to] = SetAdd(@, w)] ELSE s2
            IN IF from # Undefined THEN [s3 EXCEPT !.pinWires[from] = SetAdd(@, w)] ELSE s3
       ELSE LET s2 == IF dto # Null THEN [s1 EXCEPT !.pinWires[to] = SetAdd(@, w)] ELSE s1
            IN [s2 EXCEPT !.pinWires[from] = SetAdd(@, w)]

\* Wire constructor for wire object w and data {from, to} (to = Null while
\* the wire is being created).
NewWire(s, w, dfrom, dto) ==
    LET from == getPinByName(s, dfrom)
        to == IF dto = Null THEN Null ELSE getPinByName(s, dto)
        obj == [from |-> from, to |-> to, dfrom |-> dfrom, dto |-> dto, hidden |-> FALSE]
        s1 == [s EXCEPT !.wobj[w] = obj]
    IN IF dto # Null /\ (from = Undefined \/ to = Undefined)
       THEN [s EXCEPT !.wobj[w] = [obj EXCEPT !.hidden = TRUE]]
       ELSE LET s2 == IF dto # Null THEN [s1 EXCEPT !.pinWires[to] = SetAdd(@, w)] ELSE s1
            IN [s2 EXCEPT !.pinWires[from] = SetAdd(@, w)]

\* Play.addWire
addWire(s, w, dfrom, dto) ==
    [NewWire(s, w, dfrom, dto) EXCEPT !.wires = Append(@, w)]

\* The wire loop of Play.initObjects; the document's data objects are the
\* wires' data objects.
RECURSIVE addDocWires(_, _)
addDocWires(s, docWires) ==
    IF docWires = <<>> THEN s
    ELSE LET w == FreshWire(s)
         IN addDocWires([addWire(s, w, Head(docWires).from, Head(docWires).to)
                            EXCEPT !.dataWires = Append(@, w)],
                        Tail(docWires))

\* Play.initObjects
initObjects(s, doc) ==
    LET s1 == addDocWires(addObjects(s, s.dataObjects), DocWires(doc))
    IN [s1 EXCEPT !.version = @ + 1]

\* ----------------------------------------------------------- Wire (removal)
\* Wire.remove
WireRemove(s, w) ==
    LET from == s.wobj[w].from
        to == s.wobj[w].to
    IN IF from \in {Undefined, Null} THEN [s EXCEPT !.err = "TypeError"]
       ELSE LET s1 == [s EXCEPT !.pinWires[from] = SetDelete(@, w)]
            IN IF to \in {Undefined, Null} THEN s1
               ELSE [s1 EXCEPT !.pinWires[to] = SetDelete(@, w)]

\* A faulty removal that leaves the wire's data in the document.
removeWireKeepData(s, w) ==
    LET i == IndexOf(s.wires, w)
    IN IF i = 0 THEN [s EXCEPT !.err = "wire to remove not found"]
       ELSE WireRemove([s EXCEPT !.wires = Splice(@, i)], w)

\* Play.removeWire: both arrays are spliced at the wire's index in Play.wires.
removeWire(s, w) ==
    LET i == IndexOf(s.wires, w)
    IN IF i = 0 THEN [s EXCEPT !.err = "wire to remove not found"]
       ELSE WireRemove([s EXCEPT !.wires = Splice(@, i),
                                 !.dataWires = IF i <= Len(@) THEN Splice(@, i) ELSE @],
                       w)

\* Wire.setTo
setTo(s, w, pin) ==
    [s EXCEPT !.wobj[w].to = pin, !.wobj[w].dto = pin,
              !.pinWires[pin] = SetAdd(@, w)]

\* ------------------------------------------------------------------- Play
\* The pins tab of Play.updateInfo reads pin.connected of every named pin
\* of the selected device.
RECURSIVE ReadConnected(_, _)
ReadConnected(s, pins) ==
    IF pins = <<>> \/ s.err # "" THEN s
    ELSE ReadConnected(connected(s, Head(pins)), Tail(pins))

DevicePins(s, d) == IF d = BoardId THEN DescPins(s.desc) ELSE PinsOf(d)

updateInfo(s) == ReadConnected(s, DevicePins(s, s.selected.dev))

\* Play.deselect: a wire still being created is removed.
deselect(s) ==
    IF s.selected = NoSelection THEN s
    ELSE LET s1 == IF s.moveMode = "add-wire"
                   THEN removeWire([s EXCEPT !.moveMode = ""], s.selected.wire)
                   ELSE s
         IN IF s1.err # "" THEN s1 ELSE [s1 EXCEPT !.selected = NoSelection]

\* Play.select
select(s, obj) ==
    IF s.selected = obj THEN s
    ELSE LET s1 == deselect(s)
             s2 == [s1 EXCEPT !.selected = obj]
         IN IF s1.err # "" THEN s1
            ELSE IF obj.kind = "device" THEN updateInfo(s2) ELSE s2

\* The loop of Play.removeObject over Play.wires, at index i (1-based), with
\* the pins collected so far.  Reading .device of an end that is undefined
\* or null throws a TypeError.
RECURSIVE RemoveWiresOf(_, _, _, _)
RemoveWiresOf(s, d, i, pins) ==
    IF s.err # "" \/ i > Len(s.wires) THEN [s |-> s, pins |-> pins]
    ELSE LET w == s.wires[i]
             from == s.wobj[w].from
             to == s.wobj[w].to
         IN IF from \in {Undefined, Null}
            THEN [s |-> [s EXCEPT !.err = "TypeError"], pins |-> pins]
            ELSE IF DeviceOf(from) # d /\ to \in {Undefined, Null}
            THEN [s |-> [s EXCEPT !.err = "TypeError"], pins |-> pins]
            ELSE IF DeviceOf(from) = d \/ DeviceOf(to) = d
            THEN RemoveWiresOf(removeWire(s, w), d, i, SetAdd(SetAdd(pins, from), to))
            ELSE RemoveWiresOf(s, d, i + 1, pins)

\* The last loop of Play.removeObject: pin.update() for every collected pin.
RECURSIVE UpdateAll(_, _)
UpdateAll(s, pins) ==
    IF pins = <<>> \/ s.err # "" THEN s
    ELSE IF Head(pins) \in {Undefined, Null} THEN [s EXCEPT !.err = "TypeError"]
    ELSE UpdateAll(update(s, Head(pins)), Tail(pins))

\* A faulty removal that does not spare the first object of the document.
removeDeviceUnguarded(s, d) ==
    LET s1 == [s EXCEPT !.removed = d,
                        !.objects = @ \ {d},
                        !.dataObjects = IF IndexOf(@, d) = 0 THEN SubSeq(@, 1, Len(@) - 1)
                                        ELSE Splice(@, IndexOf(@, d))]
        r == RemoveWiresOf(s1, d, 1, <<>>)
    IN IF r.s.err # "" THEN r.s
       ELSE UpdateAll([r.s EXCEPT !.version = @ + 1], r.pins)

\* Play.removeObject for a Device.
removeDevice(s, d) ==
    IF d = s.dataObjects[1] THEN s
    ELSE LET s1 == [s EXCEPT !.removed = d,
                             !.objects = @ \ {d},
                             !.dataObjects = IF IndexOf(@, d) = 0 THEN SubSeq(@, 1, Len(@) - 1)
                                             ELSE Splice(@, IndexOf(@, d))]
             r == RemoveWiresOf(s1, d, 1, <<>>)
         IN IF r.s.err # "" THEN r.s
            ELSE UpdateAll([r.s EXCEPT !.version = @ + 1], r.pins)

\* Play.removeObject for a Wire.
removeWireObject(s, w) ==
    LET from == s.wobj[w].from
        to == s.wobj[w].to
        s1 == removeWire(s, w)
    IN IF s1.err # "" THEN s1
       ELSE UpdateAll([s1 EXCEPT !.version = @ + 1], <<from, to>>)

\* Play.removeObject
removeObject(s, obj) ==
    IF obj.kind = "device" THEN removeDevice(s, obj.dev)
    ELSE IF obj.kind = "wire" THEN removeWireObject(s, obj.wire)
    ELSE s

\* ------------------------------------------------------- Microcontroller
\* Play.getMCU: the first object of type 'mcu' of the schematic.
getMCU(s) ==
    LET c == SelectSeq(DescChildren(s.desc), LAMBDA d : TypeOf(d) = "mcu")
    IN IF c = <<>> THEN Undefined ELSE Head(c)

\* Runner.stop tears the execution context down at once: a stopped context
\* never starts and sends nothing more.
stop(s, r) == [s EXCEPT !.runners[r] = "stopped"]

\* Runner.run, up to the point where it waits for the context to start.
run(s, r) == [s EXCEPT !.runners[r] = "starting"]

\* The context of Runner r has started, unless it was stopped meanwhile.
started(s, r) == IF s.runners[r] = "starting" THEN [s EXCEPT !.runners[r] = "running"] ELSE s

\* The loop of runBinary over this.pins.
RECURSIVE ResetAll(_, _)
ResetAll(s, pins) ==
    IF pins = <<>> \/ s.err # "" THEN s
    ELSE ResetAll(resetPin(s, Head(pins)), Tail(pins))

\* Microcontroller.runBinary, up to its await; r is the Runner it creates.
runBinary(s, m, r) ==
    LET s1 == IF s.runner # 0 THEN stop(s, s.runner) ELSE s
        s2 == ResetAll(s1, PinsOf(m))
    IN IF s2.err # "" THEN s2 ELSE run([s2 EXCEPT !.runner = r], r)

\* --------------------------------------------------------------- histories
\* The pins of the devices that exist: the placed ones and the board's children.
LivePins(s) ==
    {p \in DOMAIN s.mode :
        s.loaded /\ DeviceOf(p) \in s.objects \cup Range(DescChildren(s.desc))}

\* The set a pin's connected getter returns, and the pins' wire sets.
ConnectedSets(s) == [q \in LivePins(s) |-> Range(connectedValue(s, q).set)]
WireSets(s) == [q \in LivePins(s) |-> Range(s.pinWires[q])]

\* The schematic as it is when the creation of wire w starts at pin `from`.
TakeSnap(s, w, from) ==
    [status |-> "creating", wire |-> w, from |-> from, to |-> "",
     conn |-> ConnectedSets(s), pw |-> WireSets(s)]

\* ---------------------------------------------------------------- handlers
\* The pins the running program drives (M1; the data/command and chip-select
\* lines P2 and P3 of the display), and the bytes it writes to the WS2812
\* chain, on the chain's input and on an output pin.
DrivenPins == {"M1"}
LinePins == {"P2", "P3"}
WritePins == {"din1", "dout1"}
WsBytes == {1, 2}

\* The bytes the program sends to the display: commands while the display
\* reads the data/command line low (or does not listen), parameters or pixel
\* data while it reads the line high.
WindowCommands == {SWRESET, INVON, CASET, RASET}
WindowData == {0, 239}
PixelCommands == {CASET, RASET, RAMWR}
PixelData == {0, 248}

\* The page before the 'start' message, for a schematic with the given pins:
\* no Play, the version counter at 1.
InitPage(pins) ==
    /\ loaded = FALSE
    /\ desc = "none"
    /\ objects = {}
    /\ dataObjects = <<>>
    /\ wires = <<>>
    /\ dataWires = <<>>
    /\ wobj = [w \in 1..MaxWires |-> NoWire]
    /\ wireConfigurationVersion = 1
    /\ mode = [p \in pins |-> DefaultMode(p)]
    /\ high = [p \in pins |-> FALSE]
    /\ connectedOnBoard = [p \in pins |-> <<"pin", p>>]
    /\ groups = [g \in {"pin", "board"} \X pins |-> IF g[1] = "pin" THEN <<g[2]>> ELSE <<>>]
    /\ pinWires = [p \in pins |-> <<>>]
    /\ connectionCache = [p \in pins |-> <<>>]
    /\ connectionCacheVersion = [p \in pins |-> 0]
    /\ selected = NoSelection
    /\ moveMode = ""
    /\ ledOn = [d \in {"bled", "led1"} |-> FALSE]
    /\ err = ""
    /\ created = {}
    /\ notified = {}
    /\ removed = ""
    /\ snap = NoSnap
    /\ ws = [d \in WsIds |-> WsNew]
    /\ got = [d \in WsIds |-> <<>>]
    /\ wsLast = NoWrite
    /\ st = StNew
    /\ spi = NoSpi
    /\ sent = 0
    /\ params = <<>>
    /\ atCommand = [xs |-> StNew.xs, xe |-> StNew.xe, ys |-> StNew.ys, ye |-> StNew.ye]
    /\ xfer = NoXfer
    /\ upd = NoUpd
    /\ runner = 0
    /\ runners = [r \in 1..MaxRuns |-> "none"]
    /\ runs = 0
    /\ compiler = 0
    /\ worker = 0
    /\ procs = [i \in 1..MaxCompiles |-> "none"]
    /\ workers = [i \in 1..MaxCompiles |-> "none"]
    /\ calls = 0
    /\ rafs = 0
    /\ signals = 0
    /\ requests = NoFrame
    /\ panelDisposed = FALSE
    /\ late = {}
    /\ extCompiler = 0
    /\ compiling = 0
    /\ process = [c \in 1..MaxBuilds |-> 0]
    /\ builds = [b \in 1..MaxBuilds |-> NoBuild]
    /\ compiles = 0
    /\ ran = {}
    /\ superseded = {}

\* ------------------------------------------------------- the preview panel
\* Compiler.kill: a running tinygo process is killed; a process that has
\* exited is not affected.
kill(ps, c) == IF ps[c] = "running" THEN [ps EXCEPT ![c] = "killed"] ELSE ps

\* `if (compiler) { compiler.kill(); compiler = undefined; }`
KillCompiler(ps) == IF compiler # 0 THEN kill(ps, compiler) ELSE ps

\* panel.webview.postMessage called directly: the message is posted whether
\* the panel is disposed or not.
PostDirect(l, type) == IF panelDisposed THEN l \cup {type} ELSE l

\* panelPostMessage: the message is posted unless the panel is disposed.
panelPostMessage(l, type) == IF ~panelDisposed THEN PostDirect(l, type) ELSE l

\* runCompiler up to `await compiler.compile()`: the current compiler is
\* killed, the current worker is terminated, 'compiling' is posted and a new
\* Compiler starts its tinygo process.
runCompiler ==
    /\ calls < MaxCompiles
    /\ calls' = calls + 1
    /\ procs' = [KillCompiler(procs) EXCEPT ![calls + 1] = "running"]
    /\ compiler' = calls + 1
    /\ workers' = IF worker # 0 THEN [workers EXCEPT ![worker] = "terminated"] ELSE workers
    /\ worker' = 0
    /\ late' = PostDirect(late, "compiling")

\* The webview's 'ready' message.  A disposed webview sends no message.
Ready ==
    /\ ~panelDisposed
    /\ runCompiler
    /\ UNCHANGED << schematicVars, deviceVars, extVars, rafs, signals, requests, panelDisposed >>

\* watcher.onDidChange: a Go file changed.  A disposed watcher fires no event.
GoFileChanged ==
    /\ ~panelDisposed
    /\ runCompiler
    /\ UNCHANGED << schematicVars, deviceVars, extVars, rafs, signals, requests, panelDisposed >>

\* panel.onDidDispose: the compiler is killed, the worker is terminated, the
\* watcher is disposed and panelDisposed is set.
Dispose ==
    /\ ~panelDisposed
    /\ procs' = KillCompiler(procs)
    /\ compiler' = 0
    /\ workers' = IF worker # 0 THEN [workers EXCEPT ![worker] = "terminated"] ELSE workers
    /\ worker' = 0
    /\ panelDisposed' = TRUE
    /\ UNCHANGED << schematicVars, deviceVars, extVars, calls, rafs, signals, requests, late >>

\* The tinygo process of call i exits with success: compile() goes on to
\* read the output file.
CompileExits(i) ==
    /\ procs[i] = "running"
    /\ procs' = [procs EXCEPT ![i] = "exited"]
    /\ UNCHANGED << schematicVars, deviceVars, extVars, compiler, worker, workers, calls, rafs,
                    signals, requests, panelDisposed, late >>

\* The tinygo process of call i fails or dies of the kill: compile() throws,
\* runCompiler posts 'error' and returns.
CompileFails(i) ==
    /\ procs[i] \in {"running", "killed"}
    /\ procs' = [procs EXCEPT ![i] = "done"]
    /\ late' = PostDirect(late, "error")
    /\ UNCHANGED << schematicVars, deviceVars, extVars, compiler, worker, workers, calls, rafs,
                    signals, requests, panelDisposed >>

\* The output file of call i was read: runCompiler goes on after its await,
\* creates a Worker, assigns it to `worker` and posts 'start' and 'getUpdate'.
CompileReturns(i) ==
    /\ procs[i] = "exited"
    /\ procs' = [procs EXCEPT ![i] = "done"]
    /\ workers' = [workers EXCEPT ![i] = "alive"]
    /\ worker' = i
    /\ UNCHANGED << schematicVars, deviceVars, extVars, compiler, calls, rafs, signals, requests,
                    panelDisposed, late >>

\* ------------------------------------------- the preview panel, extension.ts
\* The builds whose call of compile() has not returned.
InProgress(bs) == {b \in DOMAIN bs : bs[b].at \in {"mkdir", "running", "killed", "reading"}}

\* Compiler.stop on the object c: the process the object references, if any,
\* is forgotten and killed.  The record is the objects' process fields and the
\* builds.
compilerStop(x, c) ==
    IF x.process[c] # 0
    THEN [process |-> [x.process EXCEPT ![c] = 0],
          builds |-> IF x.builds[x.process[c]].at = "running"
                     THEN [x.builds EXCEPT ![x.process[c]].at = "killed"]
                     ELSE x.builds]
    ELSE x

\* Compiler.compile on the object c, up to `await mkdir(storagePath)`:
\* 'compiling' is posted.  The caller awaits the call or not.
compile(bs, c, awaited) == [bs EXCEPT ![compiles + 1] = [obj |-> c, at |-> "mkdir", awaited |-> awaited]]

\* `compiling--` of the watcher's handler, once the compile() it awaits
\* returned.
Resume(b) == IF builds[b].awaited THEN compiling - 1 ELSE compiling

\* The webview's 'ready' message: a Compiler is created and compile() is
\* called without being awaited; the watcher is created.
ExtReady ==
    /\ extCompiler = 0
    /\ extCompiler' = 1
    /\ builds' = compile(builds, 1, FALSE)
    /\ compiles' = 1
    /\ UNCHANGED << schematicVars, deviceVars, panelVars, compiling, process, ran, superseded >>

\* watcher.onDidChange: `if (compiling)` the compiler is stopped and replaced
\* by a new one; then compiling++ and compile() is called and awaited.
ExtGoFileChanged ==
    /\ extCompiler # 0
    /\ compiles < MaxBuilds
    /\ LET x == [process |-> process, builds |-> builds]
           y == IF compiling # 0 THEN compilerStop(x, extCompiler) ELSE x
           c == IF compiling # 0 THEN compiles + 1 ELSE extCompiler
       IN /\ extCompiler' = c
          /\ process' = y.process
          /\ builds' = compile(y.builds, c, TRUE)
    /\ compiling' = compiling + 1
    /\ compiles' = compiles + 1
    /\ superseded' = superseded \cup InProgress(builds)
    /\ UNCHANGED << schematicVars, deviceVars, panelVars, ran >>

\* mkdir returned: compile() starts the tinygo process with execFile and
\* stores it in this.process.
MkdirReturns(b) ==
    /\ builds[b].at = "mkdir"
    /\ builds' = [builds EXCEPT ![b].at = "running"]
    /\ process' = [process EXCEPT ![builds[b].obj] = b]
    /\ UNCHANGED << schematicVars, deviceVars, panelVars, extCompiler, compiling, compiles,
                    ran, superseded >>

\* The tinygo process of build b exits with success: the promise resolves,
\* compile() clears this.process and goes on to read the output file.
BuildExits(b) ==
    /\ builds[b].at = "running"
    /\ builds' = [builds EXCEPT ![b].at = "reading"]
    /\ process' = [process EXCEPT ![builds[b].obj] = 0]
    /\ UNCHANGED << schematicVars, deviceVars, panelVars, extCompiler, compiling, compiles,
                    ran, superseded >>

\* The tinygo process of build b fails or dies of the kill: the promise
\* rejects, compile() clears this.process and returns.
BuildFails(b) ==
    /\ builds[b].at \in {"running", "killed"}
    /\ builds' = [builds EXCEPT ![b].at = "failed"]
    /\ process' = [process EXCEPT ![builds[b].obj] = 0]
    /\ compiling' = Resume(b)
    /\ UNCHANGED << schematicVars, deviceVars, panelVars, extCompiler, compiles, ran, superseded >>

\* The output file of build b was read: compile() posts 'run' and returns.
ReadReturns(b) ==
    /\ builds[b].at = "reading"
    /\ builds' = [builds EXCEPT ![b].at = "done"]
    /\ ran' = ran \cup {b}
    /\ compiling' = Resume(b)
    /\ UNCHANGED << schematicVars, deviceVars, panelVars, extCompiler, process, compiles, superseded >>

\* ------------------------------------------------------------- the webview
\* A worker that is alive sends 'notifyUpdate': its 'message' listener is
\* panelPostMessage, which forwards it unless the panel is disposed.  The
\* webview's onmessage then calls requestAnimationFrame(callback).
NotifyUpdate ==
    /\ \E i \in DOMAIN workers : workers[i] = "alive"
    /\ ~panelDisposed
    /\ late' = panelPostMessage(late, "notifyUpdate")
    /\ signals < MaxSignals
    /\ rafs' = rafs + 1
    /\ signals' = signals + 1
    /\ requests' = NoFrame
    /\ UNCHANGED << schematicVars, deviceVars, extVars, compiler, worker, procs, workers, calls,
                    panelDisposed >>

\* The display refreshes: every waiting callback runs and posts 'getUpdate'.
AnimationFrame ==
    /\ rafs > 0
    /\ ~panelDisposed
    /\ requests' = [signals |-> signals, getUpdate |-> rafs]
    /\ rafs' = 0
    /\ signals' = 0
    /\ UNCHANGED << schematicVars, deviceVars, extVars, compiler, worker, procs, workers, calls,
                    panelDisposed, late >>

\* The 'start' message: new Play(state), then play.initObjects().
Start(dn, doc) ==
    /\ ~loaded
    /\ Commit(initObjects([Begin(W) EXCEPT !.loaded = TRUE, !.desc = dn,
                                           !.dataObjects = DocObjects(doc)],
                          doc))

\* A click on an entry of the add-device dropdown.
AddDevice(d) ==
    /\ loaded
    /\ d \notin created
    /\ LET s1 == addObject(Begin(W), d)
           s2 == select(s1, SelDevice(d))
       IN Commit([s2 EXCEPT !.moveMode = IF s2.err = "" THEN "add" ELSE @,
                            !.dataObjects = IF s2.err = "" THEN Append(@, d) ELSE @])

\* The pads: one per pin of a placed device.
Pads == {p \in DOMAIN mode : DeviceOf(p) \in objects}

\* A click on a pad while no wire is being created: a new wire starts there.
StartWire(pin) ==
    /\ loaded
    /\ pin \in Pads
    /\ moveMode # "add-wire"
    /\ FreeWires(W) # {}
    /\ LET s1 == deselect(Begin(W))
           w == FreshWire(W)
           s2 == [addWire(s1, w, pin, Null) EXCEPT !.dataWires = Append(@, w),
                                                   !.moveMode = "add-wire"]
       IN Commit([select(s2, SelWire(w)) EXCEPT !.snap = TakeSnap(W, w, pin)])

\* A click on the pad the wire being created starts at: the wire is dropped.
CancelWire(pin) ==
    /\ loaded
    /\ pin \in Pads
    /\ moveMode = "add-wire"
    /\ wobj[selected.wire].from = pin
    /\ Commit(deselect(Begin(W)))

\* A click on another pad while a wire is being created: the wire is completed.
CompleteWire(pin) ==
    /\ loaded
    /\ pin \in Pads
    /\ moveMode = "add-wire"
    /\ wobj[selected.wire].from # pin
    /\ wireConfigurationVersion < MaxVersion
    /\ LET w == selected.wire
           s1 == [Begin(W) EXCEPT !.moveMode = ""]
           s2 == [setTo(s1, w, pin) EXCEPT !.version = @ + 1]
       IN Commit([update(s2, pin) EXCEPT
                     !.snap = IF snap.status = "creating"
                              THEN [snap EXCEPT !.status = "completed", !.to = pin]
                              ELSE NoSnap])

\* A click on the viewport, or the Escape key: Play.deselect.
Deselect ==
    /\ loaded
    /\ selected # NoSelection
    /\ Commit(deselect(Begin(W)))

\* A click on a placed device: mousedown selects it and starts a drag,
\* mouseup ends the drag.
SelectDevice(d) ==
    /\ loaded
    /\ d \in objects
    /\ selected # SelDevice(d) \/ moveMode # ""
    /\ Commit([select(Begin(W), SelDevice(d)) EXCEPT !.moveMode = ""])

\* A click on the line of a shown wire: Play.select.
SelectWire(w) ==
    /\ loaded
    /\ Has(wires, w)
    /\ ~wobj[w].hidden
    /\ selected # SelWire(w)
    /\ Commit(select(Begin(W), SelWire(w)))

\* The Delete key: the selection is deselected and then removed.
DeleteKey ==
    /\ loaded
    /\ selected # NoSelection
    /\ LET obj == selected
           s0 == [Begin(W) EXCEPT
                     !.upd = IF obj.kind = "device"
                             THEN [NoUpd EXCEPT !.op = "removeObject", !.pw = pinWires,
                                                !.version = wireConfigurationVersion]
                             ELSE NoUpd]
           s1 == deselect(s0)
           s2 == IF s1.err # "" THEN s1 ELSE removeObject(s1, obj)
       IN /\ s2.version <= MaxVersion
          /\ Commit([s2 EXCEPT
                        !.snap = IF /\ snap.status = "completed"
                                    /\ obj = SelWire(snap.wire)
                                    /\ s2.err = ""
                                 THEN [snap EXCEPT !.status = "removed"]
                                 ELSE NoSnap])

\* The running program writes a microcontroller pin: Pin.set.
PinSet(p, level) ==
    /\ loaded
    /\ Commit(set([Begin(W) EXCEPT !.upd = [NoUpd EXCEPT !.op = "set", !.pin = p]], p, level))

\* The running program configures a microcontroller pin: Pin.setMode.
PinSetMode(p, m) ==
    /\ loaded
    /\ Commit(setMode([Begin(W) EXCEPT !.upd = [NoUpd EXCEPT !.op = "setMode", !.pin = p]], p, m))

\* The 'run' message: mcu.runBinary(binary, logger).
RunBinary ==
    /\ loaded
    /\ runs < MaxRuns
    /\ LET s0 == [Begin(W) EXCEPT !.runs = @ + 1, !.upd = [NoUpd EXCEPT !.op = "runBinary"]]
       IN Commit(runBinary(s0, getMCU(s0), s0.runs))

\* The execution context of Runner r reports that it started.
RunnerStarted(r) ==
    /\ runners[r] = "starting"
    /\ Commit(started(Begin(W), r))

\* The running execution context drives a pin of its microcontroller.
RunnerSet(p, level) ==
    /\ runner # 0
    /\ runners[runner] = "running"
    /\ Commit(set([Begin(W) EXCEPT !.upd = [NoUpd EXCEPT !.op = "set", !.pin = p]], p, level))

RunnerSetMode(p, m) ==
    /\ runner # 0
    /\ runners[runner] = "running"
    /\ Commit(setMode([Begin(W) EXCEPT !.upd = [NoUpd EXCEPT !.op = "setMode", !.pin = p]], p, m))

\* The running program writes a byte to a WS2812 pin:
\* pin.device.writeWS2812Byte(pin, c).
WriteWS2812(p, c) ==
    /\ loaded
    /\ sent < MaxWsBytes
    /\ LET s0 == [Begin(W) EXCEPT
                     !.sent = @ + 1,
                     !.wsLast = [pin |-> p, c |-> c, ws |-> ws, got |-> got, calls |-> <<>>]]
       IN Commit(writeWS2812Byte(s0, p, c))

\* The animation frame a WS2812 asked for: WS2812.latch.
Latch(d) ==
    /\ loaded
    /\ ws[d].latchTimeout
    /\ Commit(latch(Begin(W), d))

\* The running program configures the SPI bus: clock on P0, data out on P1.
ConfigureSPI ==
    /\ loaded
    /\ spi.sck = Null
    /\ Commit(configureSPI(Begin(W), "P0", "P1", Undefined))

\* The running program configures the SPI bus with the clock on pin sck and
\* data out on pin sdo.  The display's clock is tied to P0 and its data in to
\* P1: the first assignment reaches the display, the second has the clock on
\* the wrong pin, the third the data.
BusPins == { <<"P0", "P1">>, <<"P1", "P1">>, <<"P0", "P0">> }
ConfigureBus(sck, sdo) ==
    /\ loaded
    /\ spi.sck # sck \/ spi.sdo # sdo
    /\ Commit(configureSPI(Begin(W), sck, sdo, Undefined))

\* How the display takes a byte in world s: not at all (the bus is not
\* connected to it, or chip select reads high), as data, or as a command.
XferKind(s) ==
    IF \/ ~Has(connectedValue(s, s.spi.sck).set, "SCK")
       \/ ~Has(connectedValue(s, s.spi.sdo).set, "SDI")
       \/ isHigh(s, "CS")
    THEN "ignored"
    ELSE IF isHigh(s, "DC") THEN "data" ELSE "command"

\* The bytes the program may send now, given its command and data bytes.
Sendable(commands, data) ==
    IF spi.sck = Null THEN {}
    ELSE IF XferKind(W) = "data" THEN data ELSE commands

\* The running program sends a byte over the SPI bus: SPIController.transfer,
\* at most max bytes in all.
SPITransfer(b, max) ==
    /\ loaded
    /\ spi.sck # Null
    /\ sent < max
    /\ LET kind == XferKind(W)
           s0 == [Begin(W) EXCEPT
                     !.sent = @ + 1,
                     !.xfer = [b |-> b, kind |-> kind, before |-> st, fills |-> <<>>]]
           s1 == transfer(s0, b)
       IN Commit([s1 EXCEPT
                     !.params = CASE kind = "data" -> Append(@, b)
                                  [] kind = "command" -> <<>>
                                  [] OTHER -> @,
                     !.atCommand = IF kind = "command"
                                   THEN [xs |-> s1.st.xs, xe |-> s1.st.xe,
                                         ys |-> s1.st.ys, ye |-> s1.st.ye]
                                   ELSE @])

\* The schematic editor with a running program.
Next ==
    \/ \E dn \in Descriptors, doc \in Documents : Start(dn, doc)
    \/ \E d \in LedIds : AddDevice(d)
    \/ \E p \in SchematicPins : StartWire(p)
    \/ \E p \in SchematicPins : CancelWire(p)
    \/ \E p \in SchematicPins : CompleteWire(p)
    \/ Deselect
    \/ \E d \in {BoardId} \cup LedIds : SelectDevice(d)
    \/ \E w \in 1..MaxWires : SelectWire(w)
    \/ DeleteKey
    \/ \E p \in DrivenPins, level \in BOOLEAN : PinSet(p, level)
    \/ \E p \in DrivenPins, m \in {"input", "output"} : PinSetMode(p, m)

Init == InitPage(SchematicPins)

Spec == Init /\ [][Next]_vars

\* Wiring and driving LEDs: devices and wires are added, the last addition can
\* be deleted, and the program drives its pin.
NextLED ==
    \/ \E dn \in Descriptors, doc \in Documents : Start(dn, doc)
    \/ \E d \in LedIds : AddDevice(d)
    \/ \E p \in SchematicPins : StartWire(p)
    \/ \E p \in SchematicPins : CompleteWire(p)
    \/ DeleteKey
    \/ \E p \in DrivenPins, level \in BOOLEAN : PinSet(p, level)
    \/ \E p \in DrivenPins, m \in {"input", "output"} : PinSetMode(p, m)

SpecLED == Init /\ [][NextLED]_vars

\* A chain of two WS2812 behind board pin B1.
NextWS ==
    \/ Start("good", "chain")
    \/ \E p \in WritePins, c \in WsBytes : WriteWS2812(p, c)
    \/ \E d \in WsIds : Latch(d)

InitWS == InitPage(ChainPins)

SpecWS == InitWS /\ [][NextWS]_vars

\* A board with an ST7789 on the SPI bus: window commands.
NextST ==
    \/ Start("tft", "empty")
    \/ ConfigureSPI
    \/ \E p \in LinePins, level \in BOOLEAN : PinSet(p, level)
    \/ \E b \in Sendable(WindowCommands, WindowData) : SPITransfer(b, MaxSpiBytes)

InitST == InitPage(TftPins)

SpecST == InitST /\ [][NextST]_vars

\* The same board: memory writes.
NextPixel ==
    \/ Start("tft", "empty")
    \/ ConfigureSPI
    \/ \E p \in LinePins, level \in BOOLEAN : PinSet(p, level)
    \/ \E b \in Sendable(PixelCommands, PixelData) : SPITransfer(b, MaxPixelBytes)

SpecPixel == InitST /\ [][NextPixel]_vars

\* A document saved with another board: one of its wires names a pin the
\* board does not have.  Wires are deleted and added, the program drives
\* its pin.
NextDoc ==
    \/ \E dn \in Descriptors : Start(dn, "wired")
    \/ \E w \in 1..MaxWires : SelectWire(w)
    \/ DeleteKey
    \/ \E p \in SchematicPins : StartWire(p)
    \/ \E p \in SchematicPins : CompleteWire(p)
    \/ \E p \in DrivenPins, level \in BOOLEAN : PinSet(p, level)
    \/ \E p \in DrivenPins, m \in {"input", "output"} : PinSetMode(p, m)

SpecDoc == Init /\ [][NextDoc]_vars

\* Editing the schematic of an empty document: devices and wires are added,
\* selected and deleted.
NextEdit ==
    \/ \E dn \in Descriptors : Start(dn, "empty")
    \/ \E d \in LedIds : AddDevice(d)
    \/ \E p \in SchematicPins : StartWire(p)
    \/ \E p \in SchematicPins : CompleteWire(p)
    \/ \E d \in {BoardId} \cup LedIds : SelectDevice(d)
    \/ \E w \in 1..MaxWires : SelectWire(w)
    \/ DeleteKey

SpecEdit == Init /\ [][NextEdit]_vars

\* A program is started and restarted while the user wires the board; the
\* running program drives the pins of its microcontroller.
NextRun ==
    \/ \E dn \in Descriptors : Start(dn, "empty")
    \/ \E p \in SchematicPins : StartWire(p)
    \/ \E p \in SchematicPins : CompleteWire(p)
    \/ RunBinary
    \/ \E r \in 1..MaxRuns : RunnerStarted(r)
    \/ \E p \in {"M1", "M2"}, level \in BOOLEAN : RunnerSet(p, level)
    \/ \E p \in {"M1", "M2"}, m \in {"input", "output"} : RunnerSetMode(p, m)

SpecRun == Init /\ [][NextRun]_vars

\* The same board: any byte at any level of the data/command and chip-select
\* lines, on any assignment of the bus pins.  0 is no command of the display.
BusBytes == {0, CASET, RAMWR}
NextBus ==
    \/ Start("tft", "empty")
    \/ \E c \in BusPins : ConfigureBus(c[1], c[2])
    \/ \E p \in LinePins, level \in BOOLEAN : PinSet(p, level)
    \/ \E b \in BusBytes : SPITransfer(b, MaxBusBytes)

SpecBus == InitST /\ [][NextBus]_vars

\* The same board with the bus on the display's pins: any byte at any level
\* of the two lines.
NextBytes ==
    \/ Start("tft", "empty")
    \/ ConfigureSPI
    \/ \E p \in LinePins, level \in BOOLEAN : PinSet(p, level)
    \/ \E b \in BusBytes : SPITransfer(b, MaxAnyBytes)

SpecBytes == InitST /\ [][NextBytes]_vars

\* Documents whose wires form cycles: "knot" has a wire from a pin to itself,
\* "twin" two wires between the same two pins.  Wires are added, selected
\* and deleted, the program drives its pin.
GraphDocuments == {"knot", "twin"}
NextGraph ==
    \/ \E doc \in GraphDocuments : Start("good", doc)
    \/ \E p \in SchematicPins : StartWire(p)
    \/ \E p \in SchematicPins : CompleteWire(p)
    \/ \E w \in 1..MaxWires : SelectWire(w)
    \/ DeleteKey
    \/ \E p \in DrivenPins, level \in BOOLEAN : PinSet(p, level)

SpecGraph == Init /\ [][NextGraph]_vars

\* Editing a loaded document on the board "good": devices and wires are
\* added, cancelled, selected and deleted.
NextSave ==
    \/ \E doc \in Documents : Start("good", doc)
    \/ \E d \in LedIds : AddDevice(d)
    \/ \E p \in SchematicPins : StartWire(p)
    \/ \E p \in SchematicPins : CancelWire(p)
    \/ \E p \in SchematicPins : CompleteWire(p)
    \/ \E d \in LedIds : SelectDevice(d)
    \/ \E w \in 1..MaxWires : SelectWire(w)
    \/ DeleteKey

SpecSave == Init /\ [][NextSave]_vars

\* One preview panel: the extension host compiles and starts workers, the
\* webview asks for updates.
NextPanel ==
    \/ Ready
    \/ GoFileChanged
    \/ Dispose
    \/ \E i \in 1..MaxCompiles : CompileExits(i)
    \/ \E i \in 1..MaxCompiles : CompileFails(i)
    \/ \E i \in 1..MaxCompiles : CompileReturns(i)
    \/ NotifyUpdate
    \/ AnimationFrame

SpecPanel == Init /\ [][NextPanel]_vars

\* One preview panel of extension.ts: builds started by 'ready' and by the
\* file watcher.
NextExt ==
    \/ ExtReady
    \/ ExtGoFileChanged
    \/ \E b \in 1..MaxBuilds : MkdirReturns(b)
    \/ \E b \in 1..MaxBuilds : BuildExits(b)
    \/ \E b \in 1..MaxBuilds : BuildFails(b)
    \/ \E b \in 1..MaxBuilds : ReadReturns(b)

SpecExt == Init /\ [][NextExt]_vars

\* ================================================================ properties
\* ------------------------------------------------------------ connectivity
\* Two pins are directly tied: one is in the other's on-board group, or a
\* completed, shown wire of the schematic joins them.
Linked(s, p, q) ==
    \/ Has(Cob(s, p), q)
    \/ Has(Cob(s, q), p)
    \/ \E i \in 1..Len(s.wires) :
          LET w == s.wobj[s.wires[i]]
          IN ~w.hidden /\ ({w.from, w.to} = {p, q})

\* The pins transitively reachable from the pins of `net`.
RECURSIVE Closure(_, _)
Closure(s, net) ==
    LET more == net \cup {q \in LivePins(s) : \E p \in net : Linked(s, p, q)}
    IN IF more = net THEN net ELSE Closure(s, more)

Reachable(s, p) == Closure(s, {p})

\* C1: in every state and for every descriptor, p.connected (when the getter
\* returns) is exactly the set of pins transitively reachable from p through
\* on-board groups and completed wires, p included.
C1_ConnectedIsClosure ==
    loaded =>
        \A p \in LivePins(W) :
            LET r == connectedValue(W, p)
            IN r.ok => Range(r.set) = Reachable(W, p)

\* C2: two pins tied together by on-board grouping only (no wire joins them)
\* are in each other's connected set, in every state after the load.
C2_GroupedPinsMutual ==
    loaded =>
        \A a \in LivePins(W) : \A b \in LivePins(W) :
            LET ra == connectedValue(W, a)
                rb == connectedValue(W, b)
                wired == \E i \in 1..Len(wires) :
                             {wobj[wires[i]].from, wobj[wires[i]].to} = {a, b}
            IN (a # b /\ Has(Cob(W, a), b) /\ ~wired /\ ra.ok /\ rb.ok)
                   => (Has(ra.set, b) /\ Has(rb.set, a))

\* C3: completing a new wire and then removing that wire leaves every pin's
\* connected set, and the wire sets of the wire's two ends, as they were
\* before the wire was created.
C3_AddThenRemoveRestores ==
    snap.status = "removed" =>
        /\ ConnectedSets(W) = snap.conn
        /\ WireSets(W)[snap.from] = snap.pw[snap.from]
        /\ WireSets(W)[snap.to] = snap.pw[snap.to]

\* A wire object has an end on device d: in its data (the document's wire
\* list) or in its pins.
TouchesDevice(w, d) ==
    \/ DeviceOf(wobj[w].dfrom) = d
    \/ DeviceOf(wobj[w].dto) = d
    \/ DeviceOf(wobj[w].from) = d
    \/ DeviceOf(wobj[w].to) = d

\* C10: after Play.removeObject(D) for a non-root device D no wire of
\* play.wires or of the document's wire list has an end on D, and no pin of
\* a remaining device holds such a wire in its wire set.
C10_RemovedDeviceLeavesNoWire ==
    removed # "" =>
        /\ \A i \in 1..Len(wires) : ~TouchesDevice(wires[i], removed)
        /\ \A i \in 1..Len(dataWires) : ~TouchesDevice(dataWires[i], removed)
        /\ \A p \in LivePins(W) :
               \A i \in 1..Len(pinWires[p]) : ~TouchesDevice(pinWires[p][i], removed)

\* The pins that lost a wire in the removal of a device, and the calls of
\* Pin.update on pin p that the removal made.
LostWire == {p \in DOMAIN pinWires : Range(upd.pw[p]) \ Range(pinWires[p]) # {}}
UpdatesOf(p) == SelectSeq(upd.log, LAMBDA e : e.pin = p)

\* C11: when the removal of a device removes wires, every pin that lost a wire
\* has update() called exactly once, after all the wires were detached and
\* the version counter was bumped.
C11_OneUpdateAfterRemoval ==
    (removed # "" /\ upd.op = "removeObject") =>
        \A p \in LostWire :
            /\ Len(UpdatesOf(p)) = 1
            /\ UpdatesOf(p)[1].wires = wires
            /\ UpdatesOf(p)[1].version = upd.version + 1
            /\ \A i \in 1..Len(wires) : ~TouchesDevice(wires[i], removed)

\* The pins the last handler changed with Pin.set, Pin.setMode or Pin.reset.
ChangedPins ==
    CASE upd.op \in {"set", "setMode"} -> {upd.pin}
      [] upd.op = "runBinary" -> Range(PinsOf(getMCU(W)))
      [] OTHER -> {}

\* The LEDs that own a pin of the sequence of pins.
LedsOf(pins) == {DeviceOf(q) : q \in {x \in Range(pins) : TypeOf(DeviceOf(x)) = "led"}}

\* C13: Pin.set, Pin.setMode and Pin.reset complete: the pin's update is
\* called once, with the change already made, and calls onPinChange for every
\* pin of the pin's connected set, in order; every LED notified has observed
\* the levels and the wiring as they are after the change.
C13_ChangeThenNotify ==
    \A p \in ChangedPins :
        /\ err = ""
        /\ Len(UpdatesOf(p)) = 1
        /\ UpdatesOf(p)[1].level = high[p]
        /\ UpdatesOf(p)[1].mode = mode[p]
        /\ UpdatesOf(p)[1].told = connectedValue(W, p).set
        /\ \A d \in LedsOf(UpdatesOf(p)[1].told) : Observed(W, d) \in notified

\* C15: the board stays the first object of the document and an object of
\* the page, and Play.removeObject applied to it (the Delete key while the
\* board is selected) removes no device and no wire, detaches no wire from a
\* pin and leaves the version counter as it is.
C15_RootStays ==
    /\ [](loaded => /\ dataObjects # <<>>
                    /\ dataObjects[1] = BoardId
                    /\ BoardId \in objects)
    /\ [][(selected = SelDevice(BoardId) /\ upd'.op = "removeObject") =>
             UNCHANGED << objects, dataObjects, wires, dataWires, pinWires,
                          wireConfigurationVersion >>]_vars

\* The Delete key was pressed while the board was selected, with a wire on it.
C15_Witness ==
    /\ upd.op = "removeObject"
    /\ removed = ""
    /\ selected = NoSelection
    /\ wires # <<>>
    /\ LedIds \subseteq objects

\* The wires of Play.wires that were created with an end missing.
InactiveWires == {w \in Range(wires) : wobj[w].hidden}

\* C16: a document wire with a missing end is in no pin's wire set, and every
\* pin of a connected set is tied to the pin by on-board groups and by wires
\* that are not inactive.
C16_InactiveWireUnattached ==
    /\ \A w \in InactiveWires : \A p \in DOMAIN pinWires : ~Has(pinWires[p], w)
    /\ \A p \in LivePins(W) :
          connectedValue(W, p).ok => Range(connectedValue(W, p).set) \subseteq Reachable(W, p)

\* An inactive wire whose other end is a pin of a placed LED, after the
\* program drove the net of that pin.
C16_Witness ==
    /\ \E w \in InactiveWires : wobj[w].to = "La" /\ "La" \in LivePins(W)
    /\ upd.op = "set"
    /\ notified # {}
    /\ err = ""

\* C17: while an inactive wire is in the schematic, Play.removeObject on a
\* device other than the board completes without an exception.
C17_InactiveWireHarmless ==
    (InactiveWires # {} /\ removed # "") => err = ""

\* C18: while a wire is being created (its `to` end is null), Pin.connected
\* of every pin returns, and returns the pins reachable through on-board
\* groups and completed wires.
C18_HalfBuiltWireTolerated ==
    (moveMode = "add-wire" /\ \E w \in Range(wires) : wobj[w].to = Null) =>
        \A p \in LivePins(W) :
            /\ connectedValue(W, p).ok
            /\ Range(connectedValue(W, p).set) = Reachable(W, p)

\* C14: for every pin, Pin.isHigh and Pin.isLow return, never both true; both
\* return false when the pin's connected set holds no output pin, and exactly
\* one returns true when it holds one.
C14_HighXorLow ==
    \A p \in LivePins(W) :
        LET r == connectedValue(W, p)
        IN /\ r.ok
           /\ ~(isHigh(W, p) /\ isLow(W, p))
           /\ Outputs(W, r.set) = <<>> => ~isHigh(W, p) /\ ~isLow(W, p)
           /\ Outputs(W, r.set) # <<>> => (isHigh(W, p) # isLow(W, p))

\* The execution contexts that are not stopped.
ActiveRunners == {r \in DOMAIN runners : runners[r] \in {"starting", "running"}}

\* C12: from the second call of runBinary on, exactly one Runner is active,
\* the one the microcontroller references, and when the call returns every pin
\* of the microcontroller has its default mode and is low while the new
\* context has not started yet.
C12_RestartStopsAndResets ==
    runs >= 2 =>
        /\ ActiveRunners = {runner}
        /\ upd.op = "runBinary" =>
              /\ runners[runner] = "starting"
              /\ \A p \in Range(PinsOf(getMCU(W))) : mode[p] = DefaultMode(p) /\ ~high[p]

\* ---------------------------------------------------------------- document
\* Play.data.wires as data: the {from, to} of each entry.
WireData == [i \in 1..Len(dataWires) |->
                [from |-> wobj[dataWires[i]].dfrom, to |-> wobj[dataWires[i]].dto]]

C24_RootRemovalRaises ==
    [][(selected = SelDevice(BoardId) /\ upd'.op = "removeObject") => err' # ""]_vars

\* C25: for every pin of a device that exists, a cached connected set that the
\* getter would return (its stored version is the current one) holds the same
\* pins as a fresh recomputation from the current wires and on-board groups,
\* whenever that recomputation returns.
C25_CachedSetIsFresh ==
    \A p \in LivePins(W) :
        (CacheValid(W, p) /\ ComputeConnected(W, p).ok) =>
            Range(connectionCache[p]) = Range(ComputeConnected(W, p).set)

\* A step changes the structure of the schematic: a document is loaded (the
\* board's on-board groups are built), a wire or a device is added or removed,
\* or a wire gets its second end.
StructuralStep ==
    \/ ~loaded /\ loaded'
    \/ wires' # wires
    \/ objects' # objects
    \/ \E i \in 1..Len(wires) :
          /\ Has(wires', wires[i])
          /\ wobj[wires[i]].to = Null
          /\ wobj'[wires[i]].to # Null

\* C26: wireConfigurationVersion never decreases, and every step that changes
\* the structure of the schematic increases it by exactly one.
C26_VersionStepsOnce ==
    [][/\ wireConfigurationVersion' >= wireConfigurationVersion
       /\ StructuralStep => wireConfigurationVersion' = wireConfigurationVersion + 1]_vars

\* ------------------------------------------------------------------ ST7789
\* The commands the display's command branch has a case for.
SLPOUT == 17
NORON == 19
DISPON == 41
KnownCommands == {SWRESET, SLPOUT, NORON, INVOFF, INVON, DISPON, CASET, RASET, RAMWR,
                  COLMOD, MADCTL}

\* C27: a command byte the display has no case for leaves the latched command,
\* the parameter buffer and the kept pixel half as they were before the byte.
C27_UnknownCommandIgnored ==
    (xfer.kind = "command" /\ xfer.b \notin KnownCommands /\ err = "") =>
        /\ st.command = xfer.before.command
        /\ st.dataBuf = xfer.before.dataBuf
        /\ st.dataByte = xfer.before.dataByte

\* The pixel half the display keeps after the data bytes ds of a memory write.
PendingHalf(ds) == IF Len(ds) % 2 = 1 THEN <<ds[Len(ds)]>> ELSE <<>>

\* C28: a byte taken as data leaves the latched command as it is; a byte taken
\* as a command becomes the latched command and leaves no parameter byte
\* pending.  Under CASET or RASET the parameter buffer holds exactly the data
\* bytes received since that command, and under RAMWR the kept pixel half and
\* the colour of a completed pixel come only from the data bytes received
\* since that command.
C28_CommandClearsPendingData ==
    /\ xfer.kind = "data" => st.command = xfer.before.command
    /\ xfer.kind = "command" => st.command = xfer.b /\ st.dataBuf.bytes = <<>>
    /\ st.command \in {CASET, RASET} => ~st.dataBuf.null /\ st.dataBuf.bytes = params
    /\ st.command = RAMWR =>
          /\ st.dataByte = PendingHalf(params)
          /\ (xfer.kind = "data" /\ Len(params) > 0 /\ Len(params) % 2 = 0) =>
                st.currentColor = Word(params[Len(params) - 1], params[Len(params)])

\* RAMWR arrives while the first byte of a pixel is kept.
C28_Witness ==
    /\ xfer.kind = "command"
    /\ xfer.b = RAMWR
    /\ xfer.before.dataByte # <<>>
    /\ st.dataByte = <<>>

\* C29: in every state of the display the window's first column is not after
\* its last one, and its first row is not after its last one.
C29_WindowOrdered == st.xs <= st.xe /\ st.ys <= st.ye

\* C30: while RAMWR is the latched command the cursor is inside the window:
\* RAMWR puts it at (xs, ys), and after every pixel xs <= x <= xe and
\* ys <= y <= ye.
C30_CursorInWindow ==
    /\ (xfer.kind = "command" /\ xfer.b = RAMWR) => st.x = st.xs /\ st.y = st.ys
    /\ st.command = RAMWR =>
          /\ st.xs <= st.x /\ st.x <= st.xe
          /\ st.ys <= st.y /\ st.y <= st.ye

\* C31: a latch of a WS2812 shows blue = the last byte received, red = the
\* one before it and green = the one before that, and every channel it shows
\* is a byte received since the device's previous latch (or 0, the empty
\* register).  shown is <<red, green, blue>>.
C31_LatchShowsBytesSinceLatch ==
    [][\A d \in WsIds :
          (loaded /\ ws[d].latchTimeout /\ ~ws'[d].latchTimeout) =>
              LET n == Len(got[d])
                  rgb == ws'[d].shown
              IN /\ n >= 1 => rgb[3] = got[d][n]
                 /\ n >= 2 => rgb[1] = got[d][n - 1]
                 /\ n >= 3 => rgb[2] = got[d][n - 2]
                 /\ \A i \in 1..3 : rgb[i] \in Range(got[d]) \cup {0}
                 /\ ws'[d].bytesInShiftRegister = 0]_vars

\* C32: after a load, for every descriptor: if pin q is in pin p's on-board
\* group then p is in q's, and both pins reference the same group object.
C32_GroupsSymmetricShared ==
    loaded =>
        \A p, q \in LivePins(W) :
            Has(Cob(W, p), q) =>
                /\ Has(Cob(W, q), p)
                /\ connectedOnBoard[p] = connectedOnBoard[q]

\* ---------------------------------------------------------------------- LED
\* A pin is wired: its connected set holds another pin.  A pin floats: no pin
\* of its connected set is an output.
Wired(s, p) == Len(connectedValue(s, p).set) > 1
Floats(s, p) == Outputs(s, connectedValue(s, p).set) = <<>>

\* The LEDs whose onPinChange ran in the last handler and saw the wiring and
\* the levels as they are now.
LedsUpToDate == {n.led : n \in {m \in notified : Observed(W, m.led) = m}}

\* C33: for an LED whose onPinChange ran, a wired pin that floats satisfies
\* that pin's condition: the LED is on when one of its pins is wired, the
\* anode is unwired, floats or reads high, and the cathode is unwired, floats
\* or reads low.
C33_FloatingPinSatisfies ==
    err = "" =>
        \A d \in LedsUpToDate :
            LET a == PinsOf(d)[1]
                c == PinsOf(d)[2]
            IN ledOn[d] <=>
                  /\ Wired(W, a) \/ Wired(W, c)
                  /\ Wired(W, a) => (Floats(W, a) \/ isHigh(W, a))
                  /\ Wired(W, c) => (Floats(W, c) \/ isLow(W, c))

\* C33, amended: for an LED whose onPinChange ran, a wired pin that floats
\* does not satisfy that pin's condition: the LED is off.
C33_FloatingPinKeepsLedOff ==
    err = "" =>
        \A d \in LedsUpToDate :
            LET a == PinsOf(d)[1]
                c == PinsOf(d)[2]
            IN ((Wired(W, a) /\ Floats(W, a)) \/ (Wired(W, c) /\ Floats(W, c))) =>
                  ~ledOn[d]

\* The program made its pin an input: the LED whose anode is wired to input
\* pins only and whose cathode is unwired was notified and is off.
C33_Witness ==
    /\ err = ""
    /\ upd.op = "setMode"
    /\ "led1" \in LedsUpToDate
    /\ Wired(W, "La")
    /\ Floats(W, "La")
    /\ ~Wired(W, "Lc")
    /\ ~ledOn["led1"]

\* ------------------------------------------------------------ Pin.connected
\* C34: in every state and for every pin of a device that exists, the
\* computation of Pin.connected ends within as many iterations as there are
\* wires, and no wire is the wire of two iterations.
C34_EachWireExpandedOnce ==
    \A p \in LivePins(W) :
        LET r == ComputeConnected(W, p)
        IN /\ ~r.cut
           /\ Len(r.expanded) <= Len(wires)
           /\ \A i, j \in 1..Len(r.expanded) : r.expanded[i] = r.expanded[j] => i = j

\* Two completed wires join the same two pins; the program wrote its pin,
\* and the computation for one of the wires' pins took both wires.
C34_Witness ==
    /\ upd.op = "set"
    /\ err = ""
    /\ Len(wires) = 2
    /\ wobj[1].from = wobj[2].to
    /\ wobj[1].to = wobj[2].from
    /\ wobj[1].from \in LivePins(W)
    /\ ComputeConnected(W, wobj[1].from).ok
    /\ Len(ComputeConnected(W, wobj[1].from).expanded) = 2

\* --------------------------------------------------------- panel disposal
\* C35: once the dispose handler of the panel ran, no message is posted to
\* the webview: not 'compiling', not 'error', not 'run', not a message
\* forwarded from the worker, whatever compilations were in flight.
C35_NoPostAfterDispose == panelDisposed => late = {}

\* C36: from a disposed panel on no Worker is created: a Worker that is alive
\* after a step from a disposed panel was alive before it.
C36_NothingCreatedAfterDispose ==
    [][panelDisposed =>
          /\ \A i \in 1..MaxCompiles : workers'[i] = "alive" => workers[i] = "alive"
          /\ \A i \in 1..MaxCompiles : procs'[i] = "running" => procs[i] = "running"]_vars

\* C37: at most one tinygo build process is running at any time, and a build
\* that was in progress when a Go file changed never sends 'run'.
C37_OneBuildAtATime ==
    /\ Cardinality({b \in 1..MaxBuilds : builds[b].at = "running"}) <= 1
    /\ ran \cap superseded = {}

\* C38: no sequence of user events makes Play.removeWire throw 'wire to
\* remove not found': every wire is removed at most once, also when Delete
\* is pressed while a wire is being drawn.
C38_WireRemovedOnce == err # "wire to remove not found"

\* The schematic with every connection cache dropped: the connected sets are
\* computed from the current wires and groups.
Uncached(s) == [s EXCEPT !.cache = [p \in DOMAIN s.cache |-> <<>>]]

\* The LEDs of the schematic whose two nets can be computed.
ShownLeds ==
    {d \in {"bled", "led1"} :
        /\ \A i \in 1..2 : PinsOf(d)[i] \in LivePins(W)
        /\ \A i \in 1..2 : ComputeConnected(W, PinsOf(d)[i]).ok}

LedsShowRule == \A d \in ShownLeds : ledOn[d] = LedRule(Uncached(W), d)

\* The last handler was a completed top-level operation: it called Pin.update
\* (Pin.set, Pin.setMode, Pin.reset, completing a wire, removing a wire or a
\* wired device) or removed a device, and it ended without an exception.
CompletedOperation == err = "" /\ (upd.log # <<>> \/ upd.op = "removeObject")

\* C39: after each completed top-level operation every LED shows what the
\* turn-on rule gives on the current wires, on-board groups, modes and levels.
C39_LedsShowRule == CompletedOperation => LedsShowRule

\* ------------------------------------------------------------ preview panel
\* C21: at most one worker of the panel is alive at any time.
C21_OneWorkerAlive ==
    Cardinality({i \in DOMAIN workers : workers[i] = "alive"}) <= 1

\* C22: when an animation frame follows n >= 1 'notifyUpdate' messages,
\* exactly one 'getUpdate' is sent at that frame.
C22_UpdatesCoalesced ==
    requests.signals >= 1 => requests.getUpdate = 1

\* ------------------------------------------------------------ ST7789 (bus)
\* C19: a byte transferred while chip select reads high, or while the bus
\* clock is not tied to SCK or the bus data pin is not tied to SDI, leaves
\* every register of the display as it was and draws nothing.
C19_UnselectedByteIgnored ==
    xfer.kind = "ignored" => st = xfer.before /\ xfer.fills = <<>>

\* A byte was ignored for the bus wiring alone, in the middle of the
\* parameters of an address command.
C19_Witness ==
    /\ xfer.kind = "ignored"
    /\ ~isHigh(W, "CS")
    /\ st.command = CASET
    /\ Len(st.dataBuf.bytes) = 2
    /\ xfer.b = RAMWR

\* C20: no transfer of a byte ends with an exception, whatever the byte, the
\* levels of the lines, the command latched and the number of parameter bytes
\* received.
C20_TransferNeverThrows ==
    xfer.kind # "none" => err = ""

\* A fifth parameter byte of an address command was taken.
C20_Witness ==
    /\ xfer.kind = "data"
    /\ st.command = CASET
    /\ Len(st.dataBuf.bytes) = 5
    /\ err = ""

\* ------------------------------------------------------------------ WS2812
\* C4: after any sequence of writeWS2812Byte and latch calls the shift
\* register of every WS2812 holds between 0 and 3 bytes.
C4_ShiftRegisterBounded ==
    \A d \in WsIds : ws[d].bytesInShiftRegister \in 0..3

\* The register is full and a further byte arrived.
C4_Witness ==
    ws["ws1"].bytesInShiftRegister = 3 /\ Len(got["ws1"]) > 3

\* In the last write: device d received a byte on din, the calls d made, and
\* the pins on the net of d's dout pin in the order the code visits them.
ReceivedOnDin(d) ==
    \/ wsLast.pin = PinsOf(d)[1]
    \/ \E i \in 1..Len(wsLast.calls) : wsLast.calls[i].pin = PinsOf(d)[1]
CallsBy(d) == SelectSeq(wsLast.calls, LAMBDA k : k.by = d)
DoutNet(d) == connectedValue(W, PinsOf(d)[2]).set

\* C5: a WS2812 that received exactly 3 bytes b1, b2, b3 on din since its last
\* latch and receives a 4th forwards b1 to the device of every pin on the net
\* of its dout pin; holding fewer than 3 bytes it forwards nothing; a byte
\* that arrives on another pin than din changes nothing and forwards nothing.
C5_FourthByteForwardsFirst ==
    wsLast.pin # "" =>
        \A d \in WsIds :
            /\ (ReceivedOnDin(d) /\ Len(wsLast.got[d]) = 3) =>
                   CallsBy(d) = [i \in 1..Len(DoutNet(d)) |->
                                    [by |-> d, pin |-> DoutNet(d)[i], c |-> wsLast.got[d][1]]]
            /\ (ReceivedOnDin(d) /\ Len(wsLast.got[d]) < 3) => CallsBy(d) = <<>>
            /\ ~ReceivedOnDin(d) => (ws[d] = wsLast.ws[d] /\ CallsBy(d) = <<>>)

\* The first WS2812 held three bytes, the first unlike the others, and
\* handed the first one to the second WS2812.
C5_Witness ==
    /\ wsLast.pin = "din1"
    /\ Len(wsLast.got["ws1"]) = 3
    /\ wsLast.got["ws1"][1] # wsLast.got["ws1"][2]
    /\ wsLast.got["ws1"][1] # wsLast.got["ws1"][3]
    /\ \E i \in 1..Len(wsLast.calls) :
          wsLast.calls[i] = [by |-> "ws1", pin |-> "din2", c |-> wsLast.got["ws1"][1]]
    /\ got["ws2"] # <<>>
    /\ got["ws2"][Len(got["ws2"])] = wsLast.got["ws1"][1]

\* ------------------------------------------------------------------ ST7789
\* C6: whenever the display accepts 0x01 as a command, whatever it held
\* before, the window is xs = 0, xe = 0xEF, ys = 0, ye = 0x13F afterwards and
\* the inversion is off.
C6_SoftwareResetRestoresWindow ==
    (xfer.kind = "command" /\ xfer.b = SWRESET) =>
        /\ st.xs = 0
        /\ st.xe = 239
        /\ st.ys = 0
        /\ st.ye = 319
        /\ ~st.inverse

\* A software reset was accepted by a display with another row window.
C6_Witness ==
    /\ xfer.kind = "command"
    /\ xfer.b = SWRESET
    /\ xfer.before.ye = 239
    /\ st.ye = 319

\* C7: under CASET (resp. RASET) the registers xs, xe (resp. ys, ye) are as
\* the command found them until the fourth data byte arrives, and from then
\* on xs = d0*256+d1 and xe = d2*256+d3 of the first four data bytes, whatever
\* follows; data [0, 0, 0, 0xEF] gives xs = 0 and xe = 239.
C7_AddressSetTakesFourBytes ==
    /\ st.command = CASET =>
          IF Len(params) < 4
          THEN st.xs = atCommand.xs /\ st.xe = atCommand.xe
          ELSE /\ st.xs = params[1] * 256 + params[2]
               /\ st.xe = params[3] * 256 + params[4]
               /\ (SubSeq(params, 1, 4) = <<0, 0, 0, 239>> => st.xs = 0 /\ st.xe = 239)
    /\ st.command = RASET =>
          IF Len(params) < 4
          THEN st.ys = atCommand.ys /\ st.ye = atCommand.ye
          ELSE /\ st.ys = params[1] * 256 + params[2]
               /\ st.ye = params[3] * 256 + params[4]
               /\ (SubSeq(params, 1, 4) = <<0, 0, 0, 239>> => st.ys = 0 /\ st.ye = 239)

\* Column address set with [0, 0xEF, 0, 0xEF] and a fifth data byte.
C7_Witness ==
    /\ st.command = CASET
    /\ Len(params) = 5
    /\ SubSeq(params, 1, 4) = <<0, 239, 0, 239>>
    /\ st.xs = 239
    /\ st.xe = 239

\* Math.round(n * 255 / d) as the integer nearest to the quotient.
Nearest(n, d) ==
    CHOOSE r \in 0..255 : 2 * d * r - d <= 2 * n * 255 /\ 2 * n * 255 < 2 * d * r + d

\* The colour of an RGB565 word.
Colour(word) ==
    << Nearest(word \div 2048, 31), Nearest((word \div 32) % 64, 63), Nearest(word % 32, 31) >>

\* The last transfer completed a pixel of a memory write; the pixel's word;
\* what the write drew, given the cursor before it.
PixelCompleted ==
    /\ xfer.kind = "data"
    /\ st.command = RAMWR
    /\ params # <<>>
    /\ Len(params) % 2 = 0
PixelWord == params[Len(params) - 1] * 256 + params[Len(params)]
PixelDrawn ==
    LET x == xfer.before.x - columnOffset
        y == xfer.before.y - rowOffset
    IN IF x >= 0 /\ y >= 0 /\ x < pixelWidth /\ y < pixelHeight
       THEN xfer.fills = << [x |-> x, y |-> y, style |-> Colour(PixelWord)] >>
       ELSE xfer.fills = <<>>

C9_LedTurnOnRule ==
    \A n \in notified :
        /\ (n.anodeConnected /\ ~n.cathodeConnected /\ n.high) => ledOn[n.led]
        /\ (n.anodeConnected /\ ~n.cathodeConnected /\ n.low) => ~ledOn[n.led]
        /\ (~n.anodeConnected /\ ~n.cathodeConnected) => ~ledOn[n.led]

\* The free-standing LED, its anode wired to the driven pin's net, is on.
C9_Witness ==
    \E n \in notified :
        /\ n.led = "led1"
        /\ n.anodeConnected
        /\ ~n.cathodeConnected
        /\ n.high
        /\ ledOn["led1"]
        /\ high["M1"]

====
